---- MODULE Spec2Model ----
(***************************************************************************)
(* Recommendation engine of OptiMoney: the recommendation store, the       *)
(* pattern store, the synthesizer (generate_recommendations) and the       *)
(* lifecycle manager (fetch, mark shown, user interaction, lazy expiry).   *)
(* Time is counted in days; every operation reads the clock once.          *)
(***************************************************************************)
EXTENDS Integers, Sequences, FiniteSets, TLC

VARIABLES now, patterns, recs, out, txs, pdocs

vars == <<now, patterns, recs, out, txs, pdocs>>

(***************************************************************************)
(* Bounds of the model                                                     *)
(***************************************************************************)
MaxRecs == 2
MaxTime == 31
MaxShow == 1
MaxActs == 1

TickSteps == {30, 31}
Users == {"u1", "u2"}
Limits == {-1, 0, 1, 2}

(***************************************************************************)
(* Program constants                                                       *)
(***************************************************************************)
ExpiryDays == 30
FatigueDays == 7
FatigueShows == 3

NoTime == -1
NoReason == "none"

SupportedTypes == {"micro_expense", "temporal", "recurring", "category_deviation"}
PatternStatuses == {"active", "resolved", "ignored"}
RecStatuses == {"pending", "shown", "acted_upon", "dismissed", "expired"}
Terminal == {"acted_upon", "dismissed", "expired"}
IgnoreReasons == {"not_relevant", "not_interested"}
DismissReasons == {NoReason, "not_relevant", "not_interested"}

(***************************************************************************)
(* The patterns the analysis may persist: id -> the fields the synthesizer *)
(* reads.  confidence is in hundredths.                                    *)
(***************************************************************************)
PatternPool ==
  [p1 |-> [user_id |-> "u1", type |-> "micro_expense", estimatedMonthly |-> 4000, confidence |-> 85],
   p2 |-> [user_id |-> "u1", type |-> "recurring", estimatedMonthly |-> 25000, confidence |-> 90]]

PatternIds == DOMAIN PatternPool

\* the order in which a query streams the pattern documents
PatternOrder == <<"p1", "p2">>

(***************************************************************************)
(* Helpers                                                                 *)
(***************************************************************************)
Max2(a, b) == IF a > b THEN a ELSE b
Min2(a, b) == IF a < b THEN a ELSE b

\* sorted(..., reverse=True): a stable sort of the sequence s, descending by
\* key[x] (key is a function on the elements)
RECURSIVE SortDesc(_, _)
SortDesc(s, key) ==
  IF s = <<>> THEN <<>>
  ELSE LET i == CHOOSE j \in DOMAIN s :
                   /\ \A k \in DOMAIN s : key[s[k]] <= key[s[j]]
                   /\ \A k \in 1..(j - 1) : key[s[k]] < key[s[j]]
           rest == [k \in 1..(Len(s) - 1) |-> IF k < i THEN s[k] ELSE s[k + 1]]
       IN <<s[i]>> \o SortDesc(rest, key)

\* python's lst[:limit]
Slice(s, limit) ==
  IF limit >= 0 THEN SubSeq(s, 1, Min2(limit, Len(s)))
  ELSE SubSeq(s, 1, Max2(0, Len(s) + limit))

(***************************************************************************)
(* Recommendation model                                                    *)
(***************************************************************************)
\* Recommendation.is_expired
is_expired(r, t) == t > r.expires_at

\* mutant: the anti-fatigue rule starts at the third show
should_show_atThree(r, t) ==
  IF is_expired(r, t) THEN FALSE
  ELSE IF r.status \in {"dismissed", "acted_upon", "expired"} THEN FALSE
  ELSE IF r.dismissed \/ r.actionTaken THEN FALSE
  ELSE IF r.show_count >= FatigueShows
          /\ r.last_shown_at # NoTime
          /\ (t - r.last_shown_at) < FatigueDays THEN FALSE
  ELSE TRUE

\* Recommendation.should_show, the clock read as t
should_show(r, t) ==
  IF is_expired(r, t) THEN FALSE
  ELSE IF r.status \in {"dismissed", "acted_upon", "expired"} THEN FALSE
  ELSE IF r.dismissed \/ r.actionTaken THEN FALSE
  ELSE IF r.show_count > FatigueShows
          /\ r.last_shown_at # NoTime
          /\ (t - r.last_shown_at) < FatigueDays THEN FALSE
  ELSE TRUE

\* _calculate_priority with the savings tiers reached at the threshold itself
_calculate_priority_atThreshold(p) ==
  LET s == IF p.estimatedMonthly >= 50000 THEN 3
           ELSE IF p.estimatedMonthly >= 20000 THEN 2
           ELSE IF p.estimatedMonthly >= 5000 THEN 1 ELSE 0
      c == IF p.confidence > 90 THEN 1
           ELSE IF p.confidence < 60 THEN -1 ELSE 0
      t == IF p.type = "category_deviation" THEN 1
           ELSE IF p.type = "recurring" THEN 1 ELSE 0
  IN Max2(1, Min2(10, 5 + s + c + t))

\* RecommendationService._calculate_priority
_calculate_priority(p) ==
  LET s == IF p.estimatedMonthly > 50000 THEN 3
           ELSE IF p.estimatedMonthly > 20000 THEN 2
           ELSE IF p.estimatedMonthly > 5000 THEN 1 ELSE 0
      c == IF p.confidence > 90 THEN 1
           ELSE IF p.confidence < 60 THEN -1 ELSE 0
      t == IF p.type = "category_deviation" THEN 1
           ELSE IF p.type = "recurring" THEN 1 ELSE 0
  IN Max2(1, Min2(10, 5 + s + c + t))

\* mutant: the expiry defaults to the creation time
NewRecommendation_noExpiry(pid, t) ==
  [user_id |-> PatternPool[pid].user_id, pattern_id |-> pid, created_at |-> t,
   expires_at |-> t, last_shown_at |-> NoTime, show_count |-> 0, status |-> "pending",
   priority |-> _calculate_priority(PatternPool[pid]),
   seen |-> FALSE, dismissed |-> FALSE, actionTaken |-> FALSE]

\* Recommendation.__init__ as the four builders call it.  content, context,
\* updated_at and user_interaction.dismissReason, savedForLater and feedback
\* are written but never read by the engine and are left out of the record.
NewRecommendation(pid, t) ==
  [user_id |-> PatternPool[pid].user_id,
   pattern_id |-> pid,
   created_at |-> t,
   expires_at |-> t + ExpiryDays,
   last_shown_at |-> NoTime,
   show_count |-> 0,
   status |-> "pending",
   priority |-> _calculate_priority(PatternPool[pid]),
   seen |-> FALSE,
   dismissed |-> FALSE,
   actionTaken |-> FALSE]

(***************************************************************************)
(* Repositories                                                            *)
(***************************************************************************)
\* mutant: a recommendation expires at its expires_at, not after it
expire_old_recommendations_atExpiry(rs, u, t) ==
  [i \in DOMAIN rs |->
     IF rs[i].user_id = u /\ rs[i].expires_at <= t /\ rs[i].status # "expired"
     THEN [rs[i] EXCEPT !.status = "expired"]
     ELSE rs[i]]

\* RecommendationRepository.expire_old_recommendations
expire_old_recommendations(rs, u, t) ==
  [i \in DOMAIN rs |->
     IF rs[i].user_id = u /\ rs[i].expires_at < t /\ rs[i].status # "expired"
     THEN [rs[i] EXCEPT !.status = "expired"]
     ELSE rs[i]]

\* RecommendationRepository.get_pending_recommendations: the ids returned
get_pending_recommendations(rs, u, limit, t) ==
  LET Mine(i) == rs[i].user_id = u
      Shows(i) == should_show(rs[i], t) /\ rs[i].expires_at > t
      Prio == [i \in DOMAIN rs |-> rs[i].priority]
      ids == [i \in 1..Len(rs) |-> i]
      all_recommendations == SelectSeq(ids, Mine)
      pending_recommendations == SelectSeq(all_recommendations, Shows)
      sorted_recommendations == SortDesc(pending_recommendations, Prio)
  IN Slice(sorted_recommendations, limit)

\* mutant: every persisted pattern of the user, whatever its status
get_patterns_by_savings_potential_anyStatus(ps, u) ==
  LET Persisted(p) == ps[p] # "absent" /\ PatternPool[p].user_id = u
      Enough(p) == PatternPool[p].estimatedMonthly >= 0
      Savings == [p \in PatternIds |-> PatternPool[p].estimatedMonthly]
  IN SortDesc(SelectSeq(SelectSeq(PatternOrder, Persisted), Enough), Savings)

\* PatternRepository.get_patterns_by_savings_potential with min_amount = 0
get_patterns_by_savings_potential(ps, u) ==
  LET Active(p) == ps[p] = "active" /\ PatternPool[p].user_id = u
      Enough(p) == PatternPool[p].estimatedMonthly >= 0
      Savings == [p \in PatternIds |-> PatternPool[p].estimatedMonthly]
  IN SortDesc(SelectSeq(SelectSeq(PatternOrder, Active), Enough), Savings)

\* mutant: the query asks for status shown instead of pending
existing_recommendations_shown(rs, u, pid) ==
  {i \in DOMAIN rs : rs[i].user_id = u /\ rs[i].pattern_id = pid /\ rs[i].status = "shown"}

\* the query {user_id, pattern_id, status: pending} of generate_recommendations
existing_recommendations(rs, u, pid) ==
  {i \in DOMAIN rs : rs[i].user_id = u /\ rs[i].pattern_id = pid /\ rs[i].status = "pending"}

\* RecommendationService._create_recommendation_from_pattern: the store after it
_create_recommendation_from_pattern(rs, pid, t) ==
  IF PatternPool[pid].type \in SupportedTypes
  THEN Append(rs, NewRecommendation(pid, t))
  ELSE rs

\* the loop of generate_recommendations over the sorted patterns
RECURSIVE GenerateLoop(_, _, _, _)
GenerateLoop(ps, rs, u, t) ==
  IF ps = <<>> THEN rs
  ELSE IF existing_recommendations(rs, u, Head(ps)) # {}
       THEN GenerateLoop(Tail(ps), rs, u, t)
       ELSE GenerateLoop(Tail(ps), _create_recommendation_from_pattern(rs, Head(ps), t), u, t)

(***************************************************************************)
(* State                                                                   *)
(*   now       the clock (days)                                            *)
(*   patterns  pattern id -> status ("absent" before it is persisted)      *)
(*   recs      the recommendations collection, a document's id its index   *)
(*   out       the answer of the latest call of a read-only function       *)
(*             ("none" when no such call was made); in SpecOverlap the     *)
(*             invocations in flight and the position of each              *)
(*   txs       the transactions collection, a document's id its index      *)
(*   pdocs     the pattern documents the analysis persisted                *)
(***************************************************************************)
Init ==
  /\ now = 0
  /\ patterns = [p \in PatternIds |-> "absent"]
  /\ recs = <<>>
  /\ out = "none"
  /\ txs = <<>>
  /\ pdocs = <<>>

(***************************************************************************)
(* Operations.  For every service method: the store it leaves (named as the *)
(* method), the value it returns (_result) and the action that applies it.  *)
(* A call that returns early or fails writes nothing and is no step.        *)
(***************************************************************************)
\* the clock advances by d days
Tick(d) ==
  /\ now + d <= MaxTime
  /\ now' = now + d
  /\ UNCHANGED <<txs, pdocs, patterns, recs, out>>

\* the analysis persists pattern p (status active)
CreatePattern(p) ==
  /\ patterns[p] = "absent"
  /\ patterns' = [patterns EXCEPT ![p] = "active"]
  /\ UNCHANGED <<txs, pdocs, now, recs, out>>

\* RecommendationService.generate_recommendations: the store after the call
generate_recommendations(rs, ps, u, t) ==
  LET rs1 == expire_old_recommendations(rs, u, t)
      pats == get_patterns_by_savings_potential(ps, u)
  IN IF pats = <<>> THEN rs1 ELSE GenerateLoop(pats, rs1, u, t)

\* the value generate_recommendations returns
generate_recommendations_result(rs, ps, u, t) ==
  LET pats == get_patterns_by_savings_potential(ps, u)
  IN IF pats = <<>>
     THEN [status |-> "no_patterns", patterns_analyzed |-> 0, recommendations_generated |-> 0]
     ELSE [status |-> "success", patterns_analyzed |-> Len(pats),
           recommendations_generated |->
             Len(GenerateLoop(pats, expire_old_recommendations(rs, u, t), u, t)) - Len(rs)]

\* RecommendationService.get_recommendations_for_user: the store after the call
get_recommendations_for_user(rs, u, t) == expire_old_recommendations(rs, u, t)

\* the value get_recommendations_for_user returns: the ids, in order
get_recommendations_for_user_result(rs, u, limit, t) ==
  get_pending_recommendations(expire_old_recommendations(rs, u, t), u, limit, t)

\* a call of generate_recommendations(u), while the store has room for what it adds
GenerateRecommendations(u) ==
  LET after == generate_recommendations(recs, patterns, u, now)
  IN /\ Len(after) <= MaxRecs
     /\ recs' = after
     /\ UNCHANGED <<txs, pdocs, now, patterns, out>>

\* a call of get_recommendations_for_user(u, limit)
GetRecommendationsForUser(u, limit) ==
  /\ recs' = get_recommendations_for_user(recs, u, now)
  /\ UNCHANGED <<txs, pdocs, now, patterns, out>>

\* mutant: the status is set to shown whatever it was
mark_as_shown_always(r, t) ==
  [r EXCEPT !.last_shown_at = t, !.show_count = r.show_count + 1, !.seen = TRUE,
            !.status = "shown"]

\* RecommendationRepository.mark_as_shown: the document after the update
mark_as_shown(r, t) ==
  [r EXCEPT !.last_shown_at = t,
            !.show_count = r.show_count + 1,
            !.seen = TRUE,
            !.status = IF r.status = "pending" THEN "shown" ELSE r.status]

\* RecommendationService.mark_recommendation_shown: the store after the call
mark_recommendation_shown(rs, id, t) ==
  IF id \in DOMAIN rs THEN [rs EXCEPT ![id] = mark_as_shown(rs[id], t)] ELSE rs

\* the value mark_recommendation_shown returns
mark_recommendation_shown_result(rs, id) == id \in DOMAIN rs

\* the number of times recommendations of the store were marked shown
RECURSIVE TotalShown(_)
TotalShown(rs) == IF rs = <<>> THEN 0 ELSE Head(rs).show_count + TotalShown(Tail(rs))

\* a successful call of mark_recommendation_shown(id), at most MaxShow of them
MarkRecommendationShown(id) ==
  /\ mark_recommendation_shown_result(recs, id)
  /\ TotalShown(recs) < MaxShow
  /\ recs' = mark_recommendation_shown(recs, id, now)
  /\ UNCHANGED <<txs, pdocs, now, patterns, out>>

\* RecommendationRepository.update_user_interaction: the document after the update
update_user_interaction(r, itype) ==
  IF itype = "dismiss"
  THEN [r EXCEPT !.dismissed = TRUE, !.status = "dismissed"]
  ELSE IF itype = "action_taken"
  THEN [r EXCEPT !.actionTaken = TRUE, !.status = "acted_upon"]
  ELSE r

\* the value update_recommendation_interaction returns
update_recommendation_interaction_result(rs, id, itype, hasDetails) ==
  id \in DOMAIN rs /\ ~(itype = "feedback" /\ ~hasDetails)

\* RecommendationService.update_recommendation_interaction: the recommendation
\* store after the call
update_recommendation_interaction(rs, id, itype, hasDetails) ==
  IF update_recommendation_interaction_result(rs, id, itype, hasDetails)
  THEN [rs EXCEPT ![id] = update_user_interaction(rs[id], itype)]
  ELSE rs

\* mutant: every dismissal marks the pattern ignored
update_pattern_status_anyReason(ps, rs, id, itype, reason, hasDetails) ==
  IF ~update_recommendation_interaction_result(rs, id, itype, hasDetails) THEN ps
  ELSE IF itype = "action_taken" THEN [ps EXCEPT ![rs[id].pattern_id] = "resolved"]
  ELSE IF itype = "dismiss" THEN [ps EXCEPT ![rs[id].pattern_id] = "ignored"]
  ELSE ps

\* RecommendationService.update_recommendation_interaction: the pattern store
\* after the call (lines 597-613)
update_pattern_status(ps, rs, id, itype, reason, hasDetails) ==
  IF ~update_recommendation_interaction_result(rs, id, itype, hasDetails) THEN ps
  ELSE IF itype = "action_taken" THEN [ps EXCEPT ![rs[id].pattern_id] = "resolved"]
  ELSE IF itype = "dismiss" /\ reason \in IgnoreReasons
       THEN [ps EXCEPT ![rs[id].pattern_id] = "ignored"]
  ELSE ps

\* the (type, reason, details given) combinations a caller sends: reason is
\* NoReason when the details carry none or another one; only feedback is tried
\* without details
InteractionInputs ==
  {<<"dismiss", r, TRUE>> : r \in DismissReasons}
    \cup {<<"action_taken", NoReason, TRUE>>, <<"save_for_later", NoReason, TRUE>>,
          <<"feedback", NoReason, TRUE>>, <<"feedback", NoReason, FALSE>>}

\* the number of dismiss and action_taken marks the recommendations of the store carry
RECURSIVE TotalActs(_)
TotalActs(rs) ==
  IF rs = <<>> THEN 0
  ELSE (IF Head(rs).dismissed THEN 1 ELSE 0) + (IF Head(rs).actionTaken THEN 1 ELSE 0)
         + TotalActs(Tail(rs))

\* a successful call of update_recommendation_interaction(id, itype, details),
\* the store carrying at most MaxActs dismiss and action_taken marks
UpdateRecommendationInteraction(id, itype, reason, hasDetails) ==
  LET after == update_recommendation_interaction(recs, id, itype, hasDetails)
  IN /\ update_recommendation_interaction_result(recs, id, itype, hasDetails)
     /\ TotalActs(after) <= MaxActs
     /\ recs' = after
     /\ patterns' = update_pattern_status(patterns, recs, id, itype, reason, hasDetails)
     /\ UNCHANGED <<txs, pdocs, now, out>>

TickStep == \E d \in TickSteps : Tick(d)
CreatePatternStep == \E p \in PatternIds : CreatePattern(p)
GenerateStep == \E u \in Users : GenerateRecommendations(u)
GetStep == \E u \in Users, limit \in Limits : GetRecommendationsForUser(u, limit)
MarkShownStep == \E id \in 1..MaxRecs : MarkRecommendationShown(id)
InteractStep ==
  \E id \in 1..MaxRecs, x \in InteractionInputs :
    UpdateRecommendationInteraction(id, x[1], x[2], x[3])

Next ==
  \/ TickStep
  \/ CreatePatternStep
  \/ GenerateStep
  \/ GetStep
  \/ MarkShownStep
  \/ InteractStep

Spec == Init /\ [][Next]_vars

TypeOK ==
  /\ now \in 0..MaxTime
  /\ \A p \in PatternIds : patterns[p] \in PatternStatuses \cup {"absent"}
  /\ Len(recs) <= MaxRecs
  /\ \A i \in DOMAIN recs : recs[i].status \in RecStatuses

(***************************************************************************)
(* Properties of the lifecycle (specification Spec).  A property of an     *)
(* operation is stated on the store the operation leaves, for every         *)
(* reachable state it can be called in and every input.                     *)
(***************************************************************************)
PendingFor(rs, u, p) ==
  {i \in DOMAIN rs : rs[i].user_id = u /\ rs[i].pattern_id = p /\ rs[i].status = "pending"}

C28_OneVisiblePerPattern ==
  \A u \in Users, p \in PatternIds :
     Cardinality({i \in DOMAIN recs : /\ recs[i].user_id = u
                                      /\ recs[i].pattern_id = p
                                      /\ recs[i].status \in {"pending", "shown"}}) <= 1

\* C29: once a pattern is resolved or ignored it stays so, and no call made
\* afterwards (generate_recommendations among them) adds a recommendation
\* for it.
C29_ClosedPatternStaysSilent ==
  [][\A p \in PatternIds :
       patterns[p] \in {"resolved", "ignored"}
         => /\ patterns'[p] \in {"resolved", "ignored"}
            /\ \A i \in DOMAIN recs' \ DOMAIN recs : recs'[i].pattern_id # p]_vars

\* a pattern of user u1 is resolved or ignored while the user's other
\* pattern is active and has no pending recommendation: the call of
\* generate_recommendations(u1) made in this state adds a recommendation,
\* and only for the active pattern
C29_Witness ==
  \E p \in PatternIds :
     /\ patterns[p] \in {"resolved", "ignored"}
     /\ LET after == generate_recommendations(recs, patterns, "u1", now)
        IN /\ Len(after) = Len(recs) + 1
           /\ after[Len(after)].pattern_id # p
           /\ Len(after) <= MaxRecs

\* C2: generate_recommendations is idempotent: a run that follows a run for
\* the same user, with no pattern created and no recommendation past its
\* expires_at in between, reports recommendations_generated = 0 and adds
\* nothing to the store.  Stated for a second run that follows the first at
\* once or after one mark_recommendation_shown, from every reachable state.
C2_Idempotent ==
  \A u \in Users :
    LET first == generate_recommendations(recs, patterns, u, now)
        Again(rs) ==
          /\ generate_recommendations_result(rs, patterns, u, now).recommendations_generated = 0
          /\ Len(generate_recommendations(rs, patterns, u, now)) = Len(rs)
    IN /\ Again(first)
       /\ \A id \in DOMAIN first : Again(mark_recommendation_shown(first, id, now))

C4_TerminalStays ==
  [][\A i \in DOMAIN recs :
       recs[i].status \in Terminal => recs'[i].status = recs[i].status]_vars

\* C5: a recommendation enters acted_upon or dismissed only from shown.
C5_OnlyFromShown ==
  [][\A i \in DOMAIN recs :
       (recs'[i].status \in {"acted_upon", "dismissed"} /\ recs'[i].status # recs[i].status)
         => recs[i].status = "shown"]_vars

\* C6: a successful mark_recommendation_shown adds exactly 1 to show_count, sets
\* last_shown_at to the current time and seen to true, turns pending into shown
\* and leaves any other status, and every other recommendation, as it was.
C6_MarkShown ==
  \A id \in DOMAIN recs :
    LET after == mark_recommendation_shown(recs, id, now) IN
    /\ mark_recommendation_shown_result(recs, id)
    /\ after[id].show_count = recs[id].show_count + 1
    /\ after[id].last_shown_at = now
    /\ after[id].seen
    /\ (recs[id].status = "pending" => after[id].status = "shown")
    /\ (recs[id].status # "pending" => after[id].status = recs[id].status)
    /\ DOMAIN after = DOMAIN recs
    /\ \A j \in DOMAIN recs : j # id => after[j] = recs[j]

\* a recommendation that was not pending has been marked shown, at a later time
\* than its creation, and kept its status
C6_Witness ==
  \E i \in DOMAIN recs :
    /\ recs[i].show_count = 1 /\ recs[i].seen
    /\ recs[i].last_shown_at = now /\ recs[i].created_at < now
    /\ recs[i].status \in {"dismissed", "acted_upon", "expired"}

C10_FetchContract ==
  \A u \in Users, limit \in Limits :
    LET after == get_recommendations_for_user(recs, u, now)
        list == get_recommendations_for_user_result(recs, u, limit, now)
        returned == {list[k] : k \in DOMAIN list}
    IN /\ Len(list) <= Max2(limit, 0)
       /\ \A k \in DOMAIN list :
            after[list[k]].user_id = u /\ should_show(after[list[k]], now)
       /\ \A k \in DOMAIN list :
            k < Len(list) => after[list[k]].priority >= after[list[k + 1]].priority
       /\ \A i \in DOMAIN after \ returned :
            (after[i].user_id = u /\ should_show(after[i], now))
              => \A k \in DOMAIN list : after[i].priority <= after[list[k]].priority

(***************************************************************************)
(* Recommendation.should_show as a function of the document and the clock  *)
(* (specification SpecShow): one document, with the fields the constructor *)
(* accepts drawn from the sets below, is asked at several times.           *)
(***************************************************************************)
ShowStart == 10
ShowTickSteps == {6, 7}
ShowExpiries == {9, 10, 40}
ShowCounts == {0, 3, 4}
ShowLastTimes == {NoTime, 4, 10}

ShowInputs ==
  {[user_id |-> "u1", pattern_id |-> "p1", created_at |-> 0, expires_at |-> e,
    last_shown_at |-> l, show_count |-> c, status |-> st,
    priority |-> _calculate_priority(PatternPool["p1"]),
    seen |-> (c > 0), dismissed |-> d, actionTaken |-> a] :
     e \in ShowExpiries, l \in ShowLastTimes, c \in ShowCounts,
     st \in RecStatuses, d \in BOOLEAN, a \in BOOLEAN}

InitShow ==
  /\ now = ShowStart
  /\ patterns = [p \in PatternIds |-> "active"]
  /\ recs \in {<<r>> : r \in ShowInputs}
  /\ out = "none"
  /\ txs = <<>>
  /\ pdocs = <<>>

\* a call of should_show on the document; out keeps its answer
ShouldShow ==
  /\ out' = IF should_show(recs[1], now) THEN "show" ELSE "hide"
  /\ UNCHANGED <<txs, pdocs, now, patterns, recs>>

\* the clock advances by d days; the answer kept is no longer current
ShowTick(d) ==
  /\ now + d <= MaxTime
  /\ now' = now + d
  /\ out' = "none"
  /\ UNCHANGED <<txs, pdocs, patterns, recs>>

ShouldShowStep == ShouldShow
ShowTickStep == \E d \in ShowTickSteps : ShowTick(d)

NextShow ==
  \/ ShouldShowStep
  \/ ShowTickStep

SpecShow == InitShow /\ [][NextShow]_vars

\* C9: should_show is false when expires_at < now whatever the other fields,
\* false when the status is dismissed, acted_upon or expired, false when
\* dismissed or actionTaken is set, false when show_count > 3 and last_shown_at
\* is less than 7 days before now, and true in every other case; a call changes
\* no field and a repeated call gives the same answer.
C9_ShouldShow ==
  /\ [](out # "none" =>
          LET r == recs[1]
              hidden == \/ r.expires_at < now
                        \/ r.status \in {"dismissed", "acted_upon", "expired"}
                        \/ r.dismissed
                        \/ r.actionTaken
                        \/ /\ r.show_count > 3
                           /\ r.last_shown_at # NoTime
                           /\ now - r.last_shown_at < 7
          IN out = IF hidden THEN "hide" ELSE "show")
  /\ [][ShouldShow => /\ recs' = recs
                      /\ now' = now
                      /\ (out # "none" => out' = out)]_vars

\* should_show answered false for the anti-fatigue rule alone: a document
\* neither expired, terminal nor flagged, shown 4 times, the last one 6 days ago
C9_Witness ==
  /\ out = "hide"
  /\ recs[1].status \in {"pending", "shown"}
  /\ ~recs[1].dismissed /\ ~recs[1].actionTaken
  /\ ~(recs[1].expires_at < now)
  /\ recs[1].show_count = 4
  /\ now - recs[1].last_shown_at = 6

(***************************************************************************)
(* _calculate_priority as a function of the pattern it is given            *)
(* (specification SpecPriority): one pattern document, its savings,        *)
(* confidence (in hundredths) and type drawn from the sets below, is       *)
(* scored.                                                                 *)
(***************************************************************************)
PrioritySavings == {0, 5000, 5001, 20000, 20001, 50000, 50001}
PriorityConfidences == {50, 59, 60, 85, 90, 91}

PriorityInputs ==
  {[user_id |-> "u1", type |-> ty, estimatedMonthly |-> m, confidence |-> c] :
     ty \in SupportedTypes, m \in PrioritySavings, c \in PriorityConfidences}

InitPriority ==
  /\ now = 0
  /\ patterns = [p \in PatternIds |-> "absent"]
  /\ recs = <<>>
  /\ out = [call |-> "none"]
  /\ txs = <<>>
  /\ pdocs \in {<<p>> : p \in PriorityInputs}

\* a call of _calculate_priority on the document; out keeps the priority
CalculatePriority ==
  /\ out' = [call |-> "_calculate_priority",
             priority |-> _calculate_priority(pdocs[1])]
  /\ UNCHANGED <<txs, pdocs, now, patterns, recs>>

CalculatePriorityStep == CalculatePriority

NextPriority == CalculatePriorityStep

SpecPriority == InitPriority /\ [][NextPriority]_vars

\* C11: the priority of a pattern is min(10, max(1, 5 + s + c + t)) with
\* s = 3 if estimatedMonthly > 50000, else 2 if > 20000, else 1 if > 5000,
\* else 0; c = +1 if confidence > 0.9, -1 if confidence < 0.6, else 0; t = 1
\* if the type is category_deviation or recurring, else 0; it lies in [1,10].
C11_Priority ==
  out.call = "_calculate_priority" =>
    LET p == pdocs[1]
        s == IF p.estimatedMonthly > 50000 THEN 3
             ELSE IF p.estimatedMonthly > 20000 THEN 2
             ELSE IF p.estimatedMonthly > 5000 THEN 1 ELSE 0
        c == IF p.confidence > 90 THEN 1
             ELSE IF p.confidence < 60 THEN -1 ELSE 0
        t == IF p.type \in {"category_deviation", "recurring"} THEN 1 ELSE 0
    IN /\ out.priority = Min2(10, Max2(1, 5 + s + c + t))
       /\ out.priority \in 1..10

\* a recurring pattern scored with savings and confidence exactly at a
\* threshold: the tier below applies and no confidence bonus is given
C11_Witness ==
  /\ out.call = "_calculate_priority"
  /\ out.priority = 8
  /\ pdocs[1].type = "recurring"
  /\ pdocs[1].estimatedMonthly = 50000
  /\ pdocs[1].confidence = 90

(***************************************************************************)
(* Transaction analysis service.  A transaction document carries its       *)
(* amount (pesos), its date (a day number and an hour of that day), its    *)
(* category and description, the metadata the enrichment writes and the    *)
(* analysis flags.  A similarity hash is modelled by the triple that is    *)
(* hashed, a recurrence group id by the hash it is cut from.               *)
(***************************************************************************)
NoHash == <<>>
NoId == 0

micro_expense_threshold == 10000
recurring_min_frequency == 2
optimizable_recurring_min_amount == 50000
min_transactions_for_pattern == 3

\* Transaction.__init__: the document of a new transaction
NewTransaction(u, amount, date, hour, category, description, is_expense) ==
  [id |-> NoId, user_id |-> u, amount |-> amount, date |-> date, hour |-> hour,
   category |-> category, description |-> description,
   is_expense |-> is_expense,
   isRecurring |-> FALSE, recurrenceGroupId |-> NoHash,
   similarityHash |-> NoHash,
   isMicroExpense |-> FALSE, isHighDeviation |-> FALSE,
   isOptimizableRecurring |-> FALSE, isTemporalPattern |-> FALSE,
   lastAnalyzedAt |-> NoTime]

\* description.lower().strip() with every character that is neither a letter
\* nor white space removed, for the descriptions the model uses
normalized_description ==
  [coffee |-> "coffee", Coffee |-> "coffee", rent |-> "rent"]

Descriptions == DOMAIN normalized_description

\* round(amount / 100) * 100, round() rounding a half to the even integer
rounded_amount(amount) ==
  LET q == amount \div 100
      r == amount % 100
  IN IF r < 50 THEN q * 100
     ELSE IF r > 50 THEN (q + 1) * 100
     ELSE IF q % 2 = 0 THEN q * 100 ELSE (q + 1) * 100

\* TransactionAnalysisService._calculate_similarity_hash
_calculate_similarity_hash(t) ==
  [t EXCEPT !.similarityHash =
     <<normalized_description[t.description], t.category,
       rounded_amount(t.amount)>>]

\* the instant of a transaction in hours, and timedelta.days between two
Stamp(t) == t.date * 24 + t.hour
DaysBetween(a, b) == (Stamp(b) - Stamp(a)) \div 24

RECURSIVE InsertByDate(_, _)
InsertByDate(t, s) ==
  IF s = <<>> THEN <<t>>
  ELSE IF Stamp(Head(s)) <= Stamp(t) THEN <<Head(s)>> \o InsertByDate(t, Tail(s))
       ELSE <<t>> \o s

\* sorted(group, key=lambda t: t.date), a stable sort
RECURSIVE SortByDate(_)
SortByDate(s) ==
  IF s = <<>> THEN <<>>
  ELSE InsertByDate(s[Len(s)], SortByDate(SubSeq(s, 1, Len(s) - 1)))

RECURSIVE SumSeq(_)
SumSeq(xs) == IF xs = <<>> THEN 0 ELSE Head(xs) + SumSeq(Tail(xs))

RECURSIVE MaxSeq(_)
MaxSeq(xs) == IF Len(xs) = 1 THEN xs[1] ELSE Max2(Head(xs), MaxSeq(Tail(xs)))

RECURSIVE MinSeq(_)
MinSeq(xs) == IF Len(xs) = 1 THEN xs[1] ELSE Min2(Head(xs), MinSeq(Tail(xs)))

\* statistics.stdev(xs) / mean(xs) > num / den for at least two values of
\* positive sum S: den^2 * sum (n x - S)^2 > num^2 * (n - 1) * S^2, the last
\* product compared by division
RelativeStdevExceeds(xs, num, den) ==
  LET n == Len(xs)
      S == SumSeq(xs)
      a == den * den * SumSeq([i \in 1..n |-> (n * xs[i] - S) * (n * xs[i] - S)])
      b == num * num * (n - 1) * S
  IN \/ a \div S > b
     \/ a \div S = b /\ a % S > 0

\* TransactionAnalysisService._check_recurring_pattern
_check_recurring_pattern(g) ==
  LET n == Len(g)
      intervals == [i \in 1..(n - 1) |-> DaysBetween(g[i], g[i + 1])]
      amounts == [i \in 1..n |-> g[i].amount]
      amountsOk == /\ SumSeq(amounts) > 0
                   /\ ~RelativeStdevExceeds(amounts, 1, 5)
  IN IF n < recurring_min_frequency THEN FALSE
     ELSE IF n >= 3 /\ SumSeq(intervals) <= 0 THEN FALSE
     ELSE IF n >= 3 /\ Len(intervals) = 2
          THEN MinSeq(intervals) > 0 /\ MaxSeq(intervals) < 2 * MinSeq(intervals)
     ELSE IF n >= 3 /\ RelativeStdevExceeds(intervals, 1, 2) THEN FALSE
     ELSE amountsOk

\* the transactions of a batch that carry hash h, in batch order
HashGroup(b, h) == SelectSeq(b, LAMBDA t : t.similarityHash = h)

\* TransactionAnalysisService._group_similar_transactions
_group_similar_transactions_rewritten(b) ==
  [i \in 1..Len(b) |->
     LET group == HashGroup(b, b[i].similarityHash)
         is_recurring == _check_recurring_pattern(SortByDate(group))
     IN IF Len(group) < recurring_min_frequency THEN b[i]
        ELSE [b[i] EXCEPT
                !.isRecurring = is_recurring,
                !.recurrenceGroupId =
                   IF is_recurring THEN b[i].similarityHash ELSE @,
                !.isOptimizableRecurring =
                   is_recurring /\ b[i].amount >= optimizable_recurring_min_amount]]

_group_similar_transactions(b) ==
  [i \in 1..Len(b) |->
     LET group == HashGroup(b, b[i].similarityHash)
         is_recurring == _check_recurring_pattern(SortByDate(group))
     IN IF Len(group) < recurring_min_frequency THEN b[i]
        ELSE [b[i] EXCEPT
                !.isRecurring = is_recurring,
                !.recurrenceGroupId =
                   IF is_recurring THEN b[i].similarityHash ELSE @,
                !.isOptimizableRecurring =
                   IF is_recurring /\ b[i].amount >= optimizable_recurring_min_amount
                   THEN TRUE ELSE @]]

\* TransactionAnalysisService._enrich_transactions_metadata
_enrich_transactions_metadata(b) ==
  _group_similar_transactions(
     [i \in 1..Len(b) |-> _calculate_similarity_hash(b[i])])

(***************************************************************************)
(* Amounts derived by division are exact fractions in lowest terms.        *)
(***************************************************************************)
RECURSIVE GCD(_, _)
GCD(a, b) == IF b = 0 THEN a ELSE GCD(b, a % b)

Abs(n) == IF n < 0 THEN 0 - n ELSE n

Rat(n, d) ==
  LET g == GCD(Abs(n), d)
  IN [num |-> n \div g, den |-> d \div g]

RatTimes(a, k) == Rat(a.num * k, a.den)
RatOver(a, k) == Rat(a.num, a.den * k)
RatPlus(a, b) == Rat(a.num * b.den + b.num * a.den, a.den * b.den)
RatMinus(a, b) == Rat(a.num * b.den - b.num * a.den, a.den * b.den)
RatGreater(a, b) == a.num * b.den > b.num * a.den

RECURSIVE RatSum(_)
RatSum(rs) == IF rs = <<>> THEN Rat(0, 1) ELSE RatPlus(Head(rs), RatSum(Tail(rs)))

\* the distinct values of a sequence in the order of their first occurrence
\* (the key order of a dict filled in sequence order)
RECURSIVE FirstSeen(_)
FirstSeen(s) ==
  IF s = <<>> THEN <<>>
  ELSE LET r == FirstSeen(SubSeq(s, 1, Len(s) - 1))
           x == s[Len(s)]
       IN IF \E i \in 1..Len(r) : r[i] = x THEN r ELSE Append(r, x)

\* the first n elements of a sequence
Take(s, n) == SubSeq(s, 1, Min2(n, Len(s)))

Amounts(g) == [i \in 1..Len(g) |-> g[i].amount]
Stamps(g) == [i \in 1..Len(g) |-> Stamp(g[i])]
Ids(g) == [i \in 1..Len(g) |-> g[i].id]

\* (max(t.date for t in group) - min(t.date for t in group)).days
DateRange(g) == (MaxSeq(Stamps(g)) - MinSeq(Stamps(g))) \div 24

\* Transaction._initialize_metadata: dayOfWeek (day 0 a Sunday) and timeOfDay
dayOfWeek(t) == t.date % 7
timeOfDay(t) ==
  IF 5 <= t.hour /\ t.hour < 12 THEN "morning"
  ELSE IF 12 <= t.hour /\ t.hour < 17 THEN "afternoon"
  ELSE IF 17 <= t.hour /\ t.hour < 21 THEN "evening"
  ELSE "night"

\* Pattern.__init__ as the detectors call it
NewPattern(u, type, category, confidence, monthly, yearly, detail, related) ==
  [user_id |-> u, type |-> type, category |-> category, status |-> "active",
   confidence |-> confidence, estimatedMonthly |-> monthly,
   estimatedYearly |-> yearly, detail |-> detail, related |-> related]

\* mutant: setting a flag also marks the transaction as analyzed
SetFlag_analyzed(b, ids, flag) ==
  [i \in 1..Len(b) |->
     IF b[i].id \in ids
     THEN [b[i] EXCEPT ![flag] = TRUE, !.lastAnalyzedAt = b[i].date]
     ELSE b[i]]

\* setting an analysis flag on the transactions of a batch whose id is in ids
SetFlag(b, ids, flag) ==
  [i \in 1..Len(b) |->
     IF b[i].id \in ids THEN [b[i] EXCEPT ![flag] = TRUE] ELSE b[i]]

RelatedIds(ps) == UNION {{ps[k].related[j] : j \in 1..Len(ps[k].related)} : k \in 1..Len(ps)}

(***************************************************************************)
(* The detectors.  Each is given the batch and the number `adds` of calls  *)
(* of pattern_repo.add that succeed before one raises; it answers the      *)
(* batch as it leaves it, the patterns it persisted and whether the        *)
(* exception of a failed add left it.                                      *)
(***************************************************************************)
\* _detect_micro_expense_patterns without the condition on the group total
_detect_micro_expense_patterns_anyTotal(u, b, adds) ==
  LET isMicro(t) == t.is_expense /\ t.amount <= micro_expense_threshold
      micro_expenses == SelectSeq(b, isMicro)
      group(c) == SelectSeq(micro_expenses, LAMBDA t : t.category = c)
      range(c) == Max2(DateRange(group(c)), 1)
      emits(c) == Len(group(c)) >= min_transactions_for_pattern
      monthly(c) == Rat(SumSeq(Amounts(group(c))) * 30, range(c) * 2)
      cats == SelectSeq(FirstSeen([i \in 1..Len(micro_expenses) |->
                                      micro_expenses[i].category]), emits)
      found == [k \in 1..Len(cats) |->
                  NewPattern(u, "micro_expense", cats[k], 85, monthly(cats[k]),
                             RatTimes(monthly(cats[k]), 12), "none",
                             Ids(group(cats[k])))]
  IN [batch |-> SetFlag(b, {micro_expenses[i].id : i \in 1..Len(micro_expenses)},
                        "isMicroExpense"),
      found |-> Take(found, adds),
      raised |-> Len(found) > adds]

\* TransactionAnalysisService._detect_micro_expense_patterns
_detect_micro_expense_patterns(u, b, adds) ==
  LET isMicro(t) == t.is_expense /\ t.amount <= micro_expense_threshold
      micro_expenses == SelectSeq(b, isMicro)
      group(c) == SelectSeq(micro_expenses, LAMBDA t : t.category = c)
      range(c) == Max2(DateRange(group(c)), 1)
      emits(c) == /\ Len(group(c)) >= min_transactions_for_pattern
                  /\ SumSeq(Amounts(group(c))) >= micro_expense_threshold * 3
      monthly(c) == Rat(SumSeq(Amounts(group(c))) * 30, range(c) * 2)
      cats == SelectSeq(FirstSeen([i \in 1..Len(micro_expenses) |->
                                      micro_expenses[i].category]), emits)
      found == [k \in 1..Len(cats) |->
                  NewPattern(u, "micro_expense", cats[k], 85, monthly(cats[k]),
                             RatTimes(monthly(cats[k]), 12), "none",
                             Ids(group(cats[k])))]
  IN [batch |-> SetFlag(b, {micro_expenses[i].id : i \in 1..Len(micro_expenses)},
                        "isMicroExpense"),
      found |-> Take(found, adds),
      raised |-> Len(found) > adds]

\* the periodicity named for an average interval of S / k days
Periodicity(S, k) ==
  IF 25 * k <= S /\ S <= 35 * k THEN "mensual"
  ELSE IF 13 * k <= S /\ S <= 17 * k THEN "quincenal"
  ELSE IF 6 * k <= S /\ S <= 8 * k THEN "semanal"
  ELSE IF S <= 3 * k THEN "diaria"
  ELSE IF 85 * k <= S /\ S <= 95 * k THEN "trimestral"
  ELSE IF 350 * k <= S /\ S <= 380 * k THEN "anual"
  ELSE "desconocida"

\* TransactionAnalysisService._detect_recurring_patterns
_detect_recurring_patterns(u, b, adds) ==
  LET recurring_transactions ==
        SelectSeq(b, LAMBDA t : /\ t.is_expense /\ t.isRecurring
                                /\ t.isOptimizableRecurring
                                /\ t.recurrenceGroupId # NoHash)
      group(r) == SelectSeq(recurring_transactions,
                            LAMBDA t : t.recurrenceGroupId = r)
      sorted(r) == SortByDate(group(r))
      range(r) == Max2(DateRange(group(r)), 1)
      intervals(r) == [i \in 1..(Len(sorted(r)) - 1) |->
                         DaysBetween(sorted(r)[i], sorted(r)[i + 1])]
      \* avg_amount * frequency * 0.3 with frequency = len / (date_range / 30)
      monthly(r) == Rat(SumSeq(Amounts(group(r))) * 30 * 3, range(r) * 10)
      ids == SelectSeq(FirstSeen([i \in 1..Len(recurring_transactions) |->
                                    recurring_transactions[i].recurrenceGroupId]),
                       LAMBDA r : Len(group(r)) >= recurring_min_frequency)
      found == [k \in 1..Len(ids) |->
                  NewPattern(u, "recurring", group(ids[k])[1].category, 90,
                             monthly(ids[k]), RatTimes(monthly(ids[k]), 12),
                             Periodicity(SumSeq(intervals(ids[k])),
                                         Len(intervals(ids[k]))),
                             Ids(group(ids[k])))]
  IN [batch |-> b,
      found |-> Take(found, adds),
      raised |-> Len(found) > adds]

\* TransactionAnalysisService._analyze_day_of_week_patterns
_analyze_day_of_week_patterns(u, expenses) ==
  LET group(dw) == SelectSeq(expenses, LAMBDA t : dayOfWeek(t) = dw)
      average(dw) == Rat(SumSeq(Amounts(group(dw))), Len(group(dw)))
      days == FirstSeen([i \in 1..Len(expenses) |-> dayOfWeek(expenses[i])])
      overall_avg == RatOver(RatSum([i \in 1..Len(days) |-> average(days[i])]),
                             Len(days))
      high == SelectSeq(days, LAMBDA dw :
                RatGreater(RatTimes(average(dw), 2), RatTimes(overall_avg, 3)))
      monthly(dw) == RatTimes(RatMinus(average(dw), overall_avg), 4)
  IN IF Len(days) < 3 THEN <<>>
     ELSE [k \in 1..Len(high) |->
             NewPattern(u, "temporal", "multiple", 75, monthly(high[k]),
                        RatTimes(monthly(high[k]), 12), "day_of_week",
                        Ids(group(high[k])))]

\* _analyze_time_of_day_patterns with the yearly estimate over 52 weeks
_analyze_time_of_day_patterns_weeks(u, expenses) ==
  LET group(tp) == SelectSeq(expenses, LAMBDA t : timeOfDay(t) = tp)
      average(tp) == Rat(SumSeq(Amounts(group(tp))), Len(group(tp)))
      periods == FirstSeen([i \in 1..Len(expenses) |-> timeOfDay(expenses[i])])
      overall_avg == RatOver(RatSum([i \in 1..Len(periods) |-> average(periods[i])]),
                             Len(periods))
      high == SelectSeq(periods, LAMBDA tp :
                RatGreater(RatTimes(average(tp), 2), RatTimes(overall_avg, 3)))
      monthly(tp) == RatOver(RatTimes(RatMinus(average(tp), overall_avg), 30),
                             Len(periods))
  IN IF Len(periods) < 2 THEN <<>>
     ELSE [k \in 1..Len(high) |->
             NewPattern(u, "temporal", "multiple", 70, monthly(high[k]),
                        RatTimes(monthly(high[k]), 13), "time_of_day",
                        Ids(group(high[k])))]

\* TransactionAnalysisService._analyze_time_of_day_patterns
_analyze_time_of_day_patterns(u, expenses) ==
  LET group(tp) == SelectSeq(expenses, LAMBDA t : timeOfDay(t) = tp)
      average(tp) == Rat(SumSeq(Amounts(group(tp))), Len(group(tp)))
      periods == FirstSeen([i \in 1..Len(expenses) |-> timeOfDay(expenses[i])])
      overall_avg == RatOver(RatSum([i \in 1..Len(periods) |-> average(periods[i])]),
                             Len(periods))
      high == SelectSeq(periods, LAMBDA tp :
                RatGreater(RatTimes(average(tp), 2), RatTimes(overall_avg, 3)))
      monthly(tp) == RatOver(RatTimes(RatMinus(average(tp), overall_avg), 30),
                             Len(periods))
  IN IF Len(periods) < 2 THEN <<>>
     ELSE [k \in 1..Len(high) |->
             NewPattern(u, "temporal", "multiple", 70, monthly(high[k]),
                        RatTimes(monthly(high[k]), 12), "time_of_day",
                        Ids(group(high[k])))]

\* TransactionAnalysisService._detect_temporal_patterns
_detect_temporal_patterns(u, b, historical, adds) ==
  LET all_transactions ==
        b \o SelectSeq(historical, LAMBDA h : \A i \in 1..Len(b) : b[i].id # h.id)
      expenses == SelectSeq(all_transactions, LAMBDA t : t.is_expense)
      found == _analyze_day_of_week_patterns(u, expenses)
                 \o _analyze_time_of_day_patterns(u, expenses)
      saved == Take(found, adds)
  IN IF Len(expenses) < min_transactions_for_pattern * 2
     THEN [batch |-> b, found |-> <<>>, raised |-> FALSE]
     ELSE [batch |-> SetFlag(b, RelatedIds(saved), "isTemporalPattern"),
           found |-> saved,
           raised |-> Len(found) > adds]

\* _detect_category_deviations with the historical months not floored to 1
_detect_category_deviations_unfloored(u, b, historical, adds) ==
  LET current_expenses == SelectSeq(b, LAMBDA t : t.is_expense)
      historical_expenses == SelectSeq(historical, LAMBDA t : t.is_expense)
      current(c) == SelectSeq(current_expenses, LAMBDA t : t.category = c)
      past(c) == SelectSeq(historical_expenses, LAMBDA t : t.category = c)
      known(c) == past(c) # <<>> /\ DateRange(past(c)) >= 7
      historical_monthly(c) ==
        Rat(SumSeq(Amounts(past(c))) * 30, DateRange(past(c)))
      projected_monthly(c) ==
        Rat(SumSeq(Amounts(current(c))) * 30, Max2(DateRange(current(c)), 1))
      high(c) == /\ known(c)
                 /\ Len(current(c)) >= 2
                 /\ historical_monthly(c).num > 0
                 /\ RatGreater(RatTimes(projected_monthly(c), 2),
                               RatTimes(historical_monthly(c), 3))
      monthly(c) == RatMinus(projected_monthly(c), historical_monthly(c))
      cats == SelectSeq(FirstSeen([i \in 1..Len(current_expenses) |->
                                      current_expenses[i].category]), high)
      found == [k \in 1..Len(cats) |->
                  NewPattern(u, "category_deviation", cats[k], 80,
                             monthly(cats[k]), RatTimes(monthly(cats[k]), 12),
                             "none", Ids(current(cats[k])))]
  IN [batch |-> SetFlag(b, RelatedIds(Take(found, adds + 1)), "isHighDeviation"),
      found |-> Take(found, adds),
      raised |-> Len(found) > adds]

\* TransactionAnalysisService._detect_category_deviations
_detect_category_deviations(u, b, historical, adds) ==
  LET current_expenses == SelectSeq(b, LAMBDA t : t.is_expense)
      historical_expenses == SelectSeq(historical, LAMBDA t : t.is_expense)
      current(c) == SelectSeq(current_expenses, LAMBDA t : t.category = c)
      past(c) == SelectSeq(historical_expenses, LAMBDA t : t.category = c)
      known(c) == past(c) # <<>> /\ DateRange(past(c)) >= 7
      \* total / max(date_range / 30, 1)
      historical_monthly(c) ==
        IF DateRange(past(c)) <= 30 THEN Rat(SumSeq(Amounts(past(c))), 1)
        ELSE Rat(SumSeq(Amounts(past(c))) * 30, DateRange(past(c)))
      projected_monthly(c) ==
        Rat(SumSeq(Amounts(current(c))) * 30, Max2(DateRange(current(c)), 1))
      high(c) == /\ known(c)
                 /\ Len(current(c)) >= 2
                 /\ historical_monthly(c).num > 0
                 /\ RatGreater(RatTimes(projected_monthly(c), 2),
                               RatTimes(historical_monthly(c), 3))
      monthly(c) == RatMinus(projected_monthly(c), historical_monthly(c))
      cats == SelectSeq(FirstSeen([i \in 1..Len(current_expenses) |->
                                      current_expenses[i].category]), high)
      found == [k \in 1..Len(cats) |->
                  NewPattern(u, "category_deviation", cats[k], 80,
                             monthly(cats[k]), RatTimes(monthly(cats[k]), 12),
                             "none", Ids(current(cats[k])))]
  IN [batch |-> SetFlag(b, RelatedIds(Take(found, adds + 1)), "isHighDeviation"),
      found |-> Take(found, adds),
      raised |-> Len(found) > adds]

(***************************************************************************)
(* The orchestrator.  A fault names what the persistence collaborator does *)
(* wrong during one call: nothing, a read that fails (the repository       *)
(* answers an empty list), updates that fail (the repository answers       *)
(* False and the documents keep their stored values), or the at-th add of  *)
(* a pattern that raises.                                                  *)
(***************************************************************************)
AnalysisMaxAge == 7
HistoryDays == 90
NoLimit == 99

NoFault == [kind |-> "none", at |-> 0]

\* the number of adds that succeed under fault f
AddsAllowed(f) == IF f.kind = "add" THEN f.at - 1 ELSE NoLimit

\* the positions of a sequence that satisfy a condition, in order
RECURSIVE Positions(_, _)
Positions(flags, i) ==
  IF i > Len(flags) THEN <<>>
  ELSE IF flags[i] THEN <<i>> \o Positions(flags, i + 1)
       ELSE Positions(flags, i + 1)

\* TransactionRepository.get_transactions_to_analyze: the ids of the batch
get_transactions_to_analyze(ts, u, t) ==
  Positions([i \in 1..Len(ts) |->
               /\ ts[i].user_id = u
               /\ \/ ts[i].lastAnalyzedAt = NoTime
                  \/ t - ts[i].lastAnalyzedAt > AnalysisMaxAge], 1)

\* TransactionRepository.get_by_user_id_and_date_range over the last 90 days
get_by_user_id_and_date_range(ts, u, t) ==
  SelectSeq(ts, LAMBDA x : /\ x.user_id = u
                           /\ t - HistoryDays < x.date
                           /\ x.date <= t)

\* the collection after the documents of a batch are written back
WriteBack(ts, b) ==
  [i \in 1..Len(ts) |->
     IF \E k \in 1..Len(b) : b[k].id = i
     THEN b[CHOOSE k \in 1..Len(b) : b[k].id = i]
     ELSE ts[i]]

\* mutant: the batch is never marked analyzed
MarkAnalyzed_never(b, t) == b

\* Transaction.mark_as_analyzed on every transaction of the batch
MarkAnalyzed(b, t) == [i \in 1..Len(b) |-> [b[i] EXCEPT !.lastAnalyzedAt = t]]

\* the value of a call that raised
NoResult == [status |-> "raised"]

\* the body of the try block of analyze_user_transactions (lines 77-158): the
\* two collections after it, the value it returns, and whether it raised
AnalysisPass(ts, ps, u, t, f) ==
  LET ids == IF f.kind = "read_batch" THEN <<>>
             ELSE get_transactions_to_analyze(ts, u, t)
      transactions == [k \in 1..Len(ids) |-> ts[ids[k]]]
      stored(b) == IF f.kind = "update" THEN ts ELSE WriteBack(ts, b)
      adds == AddsAllowed(f)
      skipped(b) == [batch |-> b, found |-> <<>>, raised |-> FALSE]
      \* lines 130-158: the batch is marked and the result returned, unless a
      \* detector raised
      Returned(micro, recurring, temporal, deviation) ==
        IF micro.raised
        THEN [txs |-> stored(micro.batch), pdocs |-> ps \o micro.found,
              result |-> NoResult, raised |-> TRUE]
        ELSE IF recurring.raised
        THEN [txs |-> stored(recurring.batch),
              pdocs |-> ps \o micro.found \o recurring.found,
              result |-> NoResult, raised |-> TRUE]
        ELSE IF temporal.raised
        THEN [txs |-> stored(temporal.batch),
              pdocs |-> ps \o micro.found \o recurring.found \o temporal.found,
              result |-> NoResult, raised |-> TRUE]
        ELSE IF deviation.raised
        THEN [txs |-> stored(deviation.batch),
              pdocs |-> ps \o micro.found \o recurring.found \o temporal.found
                          \o deviation.found,
              result |-> NoResult, raised |-> TRUE]
        ELSE [txs |-> stored(MarkAnalyzed(deviation.batch, t)),
              pdocs |-> ps \o micro.found \o recurring.found \o temporal.found
                          \o deviation.found,
              result |-> [status |-> "success",
                          patterns_found |-> Len(micro.found) + Len(recurring.found)
                             + Len(temporal.found) + Len(deviation.found),
                          transactions_analyzed |-> Len(transactions)],
              raised |-> FALSE]
      \* lines 120-125: the category deviations
      Fourth(historical, limited_analysis, micro, recurring, temporal) ==
        Returned(micro, recurring, temporal,
                 IF limited_analysis THEN skipped(temporal.batch)
                 ELSE _detect_category_deviations(u, temporal.batch, historical,
                         adds - Len(micro.found) - Len(recurring.found)
                              - Len(temporal.found)))
      \* lines 111-118: the temporal patterns
      Third(historical, limited_analysis, micro, recurring) ==
        Fourth(historical, limited_analysis, micro, recurring,
               IF limited_analysis THEN skipped(recurring.batch)
               ELSE _detect_temporal_patterns(u, recurring.batch, historical,
                       adds - Len(micro.found) - Len(recurring.found)))
      \* lines 97-108: the limit of the analysis and the recurring expenses
      Second(historical, micro) ==
        Third(historical, Len(historical) < min_transactions_for_pattern, micro,
              _detect_recurring_patterns(u, micro.batch, adds - Len(micro.found)))
      \* lines 89-104: the history of 90 days and the micro-expenses
      First(enriched) ==
        Second(IF f.kind = "read_history" THEN <<>>
               ELSE get_by_user_id_and_date_range(stored(enriched), u, t),
               _detect_micro_expense_patterns(u, enriched, adds))
  IN IF ids = <<>>
     THEN [txs |-> ts, pdocs |-> ps,
           result |-> [status |-> "success", patterns_found |-> 0,
                       transactions_analyzed |-> 0],
           raised |-> FALSE]
     ELSE First(_enrich_transactions_metadata(transactions))

\* mutant: the exception of the pass leaves the entry point
analyze_user_transactions_uncaught(ts, ps, u, t, f) ==
  LET Uncaught(pass) ==
        [txs |-> pass.txs, pdocs |-> pass.pdocs, result |-> pass.result]
  IN Uncaught(AnalysisPass(ts, ps, u, t, f))

\* TransactionAnalysisService.analyze_user_transactions: the two collections
\* after the call and the value it returns; the except clause of lines
\* 159-161 turns an exception of the pass into the error result
analyze_user_transactions(ts, ps, u, t, f) ==
  LET Caught(pass) ==
        [txs |-> pass.txs, pdocs |-> pass.pdocs,
         result |-> IF pass.raised THEN [status |-> "error"] ELSE pass.result]
  IN Caught(AnalysisPass(ts, ps, u, t, f))

(***************************************************************************)
(* Enrichment as a function of the batch (specification SpecRecurring):    *)
(* a batch of 2 to MaxGroup expenses of one user, category and             *)
(* description, with amounts and gaps (days) drawn from the sets below,    *)
(* is enriched.                                                            *)
(***************************************************************************)
MaxGroup == 4
GroupAmounts == {60, 100, 140}
GroupGaps == {0, 7, 14}
Scales == {2, 10}

RECURSIVE DateAfterGaps(_, _)
DateAfterGaps(gaps, i) == IF i = 1 THEN 0 ELSE gaps[i - 1] + DateAfterGaps(gaps, i - 1)

\* the batch of n expenses with amounts am and gaps gp between their dates
GroupBatch(n, am, gp) ==
  [i \in 1..n |->
     [NewTransaction("u1", am[i], DateAfterGaps(gp, i), 12, "coffee", "coffee", TRUE)
        EXCEPT !.id = i]]

InitRecurring ==
  /\ now = 0
  /\ patterns = [p \in PatternIds |-> "absent"]
  /\ recs = <<>>
  /\ out = [call |-> "none"]
  /\ \E n \in 2..MaxGroup :
       \E am \in [1..n -> GroupAmounts], gp \in [1..(n - 1) -> GroupGaps] :
          txs = GroupBatch(n, am, gp)
  /\ pdocs = <<>>

\* _enrich_transactions_metadata on the batch
EnrichTransactionsMetadata ==
  /\ out.call = "none"
  /\ txs' = _enrich_transactions_metadata(txs)
  /\ out' = [call |-> "_enrich_transactions_metadata"]
  /\ UNCHANGED <<pdocs, now, patterns, recs>>

EnrichStep == EnrichTransactionsMetadata

NextRecurring == EnrichStep

SpecRecurring == InitRecurring /\ [][NextRecurring]_vars

\* the batch with every amount multiplied by k
ScaleAmounts(b, k) == [i \in 1..Len(b) |-> [b[i] EXCEPT !.amount = @ * k]]

\* the batch is one candidate group: its members share one similarity hash
OneGroup(b) ==
  \A i \in 1..Len(b) :
     _calculate_similarity_hash(b[i]).similarityHash =
        _calculate_similarity_hash(b[1]).similarityHash

\* C19: multiplying every amount of a candidate group by a positive constant
\* leaves the isRecurring verdict of every member unchanged.
C19_ScaleInvariant ==
  (out.call = "none" /\ OneGroup(txs)) =>
     \A k \in Scales : \A i \in 1..Len(txs) :
        _enrich_transactions_metadata(ScaleAmounts(txs, k))[i].isRecurring
           = _enrich_transactions_metadata(txs)[i].isRecurring

\* the coefficient of variation of the amounts of a batch exceeds 0.2
AmountCVExceeds(b) ==
  RelativeStdevExceeds([i \in 1..Len(b) |-> b[i].amount], 1, 5)

\* C20: a candidate group of any size >= 2 whose amounts have a coefficient of
\* variation above 0.2 is rejected and none of its members is marked
\* isRecurring = true.
C20_AmountCheckIndependent ==
  (out.call = "_enrich_transactions_metadata"
     /\ OneGroup(txs) /\ AmountCVExceeds(txs)) =>
        /\ ~_check_recurring_pattern(SortByDate(txs))
        /\ \A i \in 1..Len(txs) : ~txs[i].isRecurring

\* the day-gaps between the consecutive transactions of a date-sorted group
Gaps(g) == [i \in 1..(Len(g) - 1) |-> DaysBetween(g[i], g[i + 1])]

\* C21: a date-sorted group of 3 or more transactions whose amounts pass the
\* amount check and whose gaps are not all zero is recurring exactly when
\* the relative standard deviation of its gaps is at most 0.5; a group of 2
\* is decided by the amount check alone.
C21_GapRule ==
  (out.call = "none" /\ OneGroup(txs)) =>
     LET g == SortByDate(txs)
     IN /\ (Len(g) >= 3 /\ SumSeq(Gaps(g)) > 0 /\ ~AmountCVExceeds(g))
             => (_check_recurring_pattern(g) = ~RelativeStdevExceeds(Gaps(g), 1, 2))
        /\ Len(g) = 2 => (_check_recurring_pattern(g) = ~AmountCVExceeds(g))

\* C22: the verdict for a group that contains same-day transactions equals
\* the verdict for the same group with each zero gap replaced by 1 day.
C22_ZeroGapIsOneDay ==
  (out.call = "none" /\ OneGroup(txs)) =>
     LET g == SortByDate(txs)
         n == Len(g)
         one == [i \in 1..(n - 1) |-> IF Gaps(g)[i] = 0 THEN 1 ELSE Gaps(g)[i]]
     IN _check_recurring_pattern(g)
          = _check_recurring_pattern(GroupBatch(n, [i \in 1..n |-> g[i].amount], one))

(***************************************************************************)
(* One analysis pass as a function of the collection it finds              *)
(* (specification SpecDetect): the transactions collection is one of the   *)
(* stores below, all of user u1 and none analysed yet, and                 *)
(* analyze_user_transactions runs once on it, under every fault.           *)
(***************************************************************************)
MaxBatch == 4

StartDay == 60

\* a transaction as the user enters it:
\* <<amount, date, hour, category, description, is_expense>>
StoreOf(entries) ==
  [i \in 1..Len(entries) |->
     [NewTransaction("u1", entries[i][1], entries[i][2], entries[i][3],
                     entries[i][4], entries[i][5], entries[i][6])
        EXCEPT !.id = i]]

\* small expenses around the micro-expense threshold, an income among them
MicroKinds ==
  <<[amount |-> 10000, category |-> "coffee", is_expense |-> TRUE],
    [amount |-> 5000, category |-> "coffee", is_expense |-> TRUE],
    [amount |-> 10001, category |-> "coffee", is_expense |-> TRUE],
    [amount |-> 10000, category |-> "food", is_expense |-> TRUE],
    [amount |-> 10000, category |-> "coffee", is_expense |-> FALSE]>>
MicroGaps == {0, 7}

MicroStores ==
  UNION {{StoreOf([i \in 1..n |->
                     <<MicroKinds[ks[i]].amount, StartDay - (n - i) * g, 12,
                       MicroKinds[ks[i]].category, "coffee",
                       MicroKinds[ks[i]].is_expense>>]) :
            ks \in {q \in [1..n -> 1..Len(MicroKinds)] :
                      \A i \in 1..(n - 1) : q[i] <= q[i + 1]},
            g \in MicroGaps} :
         n \in 3..MaxBatch}

\* six expenses on three days of the week, in the morning or the evening
TemporalDays == <<0, 1, 2, 7, 8, 9>>
TemporalAmounts == {1000, 9000}
TemporalHours == {8, 19}

TemporalStores ==
  {StoreOf([i \in 1..Len(TemporalDays) |->
              <<am[i], StartDay - 9 + TemporalDays[i],
                IF i % 2 = 0 THEN h ELSE 8, "food", "coffee", TRUE>>]) :
     am \in [1..Len(TemporalDays) -> TemporalAmounts], h \in TemporalHours}

\* two or three large expenses of one description at regular gaps
RecurringAmounts == {50000, 50040}
RecurringGaps == {7, 14, 30}

RecurringStores ==
  UNION {{StoreOf([i \in 1..n |->
                     <<am[i], StartDay - (n - i) * g, 12, "rent", "rent", TRUE>>]) :
            am \in [1..n -> RecurringAmounts], g \in RecurringGaps} :
         n \in 2..3}

\* three coffees of 3000, 3200 and 2900 a week apart
CoffeeStore ==
  StoreOf(<<<<3000, StartDay - 14, 12, "coffee", "coffee", TRUE>>,
            <<3200, StartDay - 7, 12, "coffee", "coffee", TRUE>>,
            <<2900, StartDay, 12, "coffee", "coffee", TRUE>>>>)

Stores ==
  {CoffeeStore} \cup MicroStores \cup TemporalStores \cup RecurringStores

MaxAddFault == 2
Faults ==
  {[kind |-> k, at |-> 0] : k \in {"none", "read_batch", "read_history", "update"}}
    \cup {[kind |-> "add", at |-> n] : n \in 1..MaxAddFault}

InitDetect ==
  /\ now = StartDay
  /\ patterns = [p \in PatternIds |-> "absent"]
  /\ recs = <<>>
  /\ out = [call |-> "none"]
  /\ txs \in Stores
  /\ pdocs = <<>>

\* the one call of analyze_user_transactions for user u1, under fault f
DetectPatterns(f) ==
  /\ out.call = "none"
  /\ \E after \in {analyze_user_transactions(txs, pdocs, "u1", now, f)} :
        /\ txs' = after.txs
        /\ pdocs' = after.pdocs
        /\ out' = [call |-> "analyze_user_transactions", result |-> after.result]
        /\ UNCHANGED <<now, patterns, recs>>

DetectStep == \E f \in Faults : DetectPatterns(f)

NextDetect == DetectStep

SpecDetect == InitDetect /\ [][NextDetect]_vars

\* C16: every pattern persisted by a detector (micro_expense, recurring,
\* temporal by day and by period, category_deviation) has
\* estimatedYearly = estimatedMonthly * 12.
C16_YearlyIsTwelveMonths ==
  \A k \in 1..Len(pdocs) :
     pdocs[k].estimatedYearly.num * pdocs[k].estimatedMonthly.den
        = 12 * pdocs[k].estimatedMonthly.num * pdocs[k].estimatedYearly.den

\* one pass persisted a temporal pattern by day of the week and one by period
\* of the day, both with a positive estimate
C16_Witness ==
  /\ \E k \in 1..Len(pdocs) : /\ pdocs[k].detail = "day_of_week"
                              /\ pdocs[k].estimatedMonthly.num > 0
  /\ \E k \in 1..Len(pdocs) : /\ pdocs[k].detail = "time_of_day"
                              /\ pdocs[k].estimatedMonthly.num > 0

Categories == {"coffee", "food", "rent"}

\* the expenses of category c in the collection that are no larger than 10,000
SmallExpenses(c) ==
  SelectSeq(txs, LAMBDA t : t.is_expense /\ t.category = c /\ t.amount <= 10000)

\* C17: after a pass over the whole collection, a micro_expense pattern exists
\* for a category if and only if its expenses of amount <= 10,000 number at
\* least 3 and total at least 30,000, and the pattern's estimatedMonthly is
\* half the total times 30 over the days between the first and the last of
\* them (1 if they are less than a day apart).
C17_MicroExpense ==
  (/\ out.call = "analyze_user_transactions"
   /\ out.result.status = "success"
   /\ out.result.transactions_analyzed = Len(txs)
   /\ txs # <<>>) =>
     \A c \in Categories :
        LET g == SmallExpenses(c)
            total == SumSeq(Amounts(g))
            days == IF DateRange(g) = 0 THEN 1 ELSE DateRange(g)
            emitted == {k \in 1..Len(pdocs) :
                          pdocs[k].type = "micro_expense" /\ pdocs[k].category = c}
        IN /\ (emitted # {}) <=> (Len(g) >= 3 /\ total >= 30000)
           /\ \A k \in emitted :
                 pdocs[k].estimatedMonthly.num * 2 * days
                    = total * 30 * pdocs[k].estimatedMonthly.den

\* a pass over four coffees, one of them of 5,000, three weeks between the
\* first and the last, persisted a micro_expense pattern of 25,000 a month
C17_Witness ==
  /\ out.call = "analyze_user_transactions"
  /\ out.result.status = "success"
  /\ Len(SmallExpenses("coffee")) = 4
  /\ SumSeq(Amounts(SmallExpenses("coffee"))) = 35000
  /\ DateRange(SmallExpenses("coffee")) = 21
  /\ \E k \in 1..Len(pdocs) : /\ pdocs[k].type = "micro_expense"
                              /\ pdocs[k].category = "coffee"
                              /\ pdocs[k].estimatedMonthly = Rat(25000, 1)

\* C18: a pass over three coffees of 3000, 3200 and 2900, seven days apart,
\* sets isRecurring on all three and persists a recurring pattern whose
\* periodicity is weekly.
C18_WeeklyCoffee ==
  (out.call = "none" /\ txs = CoffeeStore) =>
     LET after == analyze_user_transactions(txs, pdocs, "u1", now, NoFault)
     IN /\ \A i \in 1..Len(after.txs) : after.txs[i].isRecurring
        /\ \E k \in 1..Len(after.pdocs) : /\ after.pdocs[k].type = "recurring"
                                          /\ after.pdocs[k].detail = "semanal"

(***************************************************************************)
(* The analysis pass as a state machine (specification SpecAnalysis).  The *)
(* transactions collection starts empty or as one of a few stores;         *)
(* transactions are added, the clock advances and                          *)
(* analyze_user_transactions runs, under every fault.                      *)
(***************************************************************************)
MaxStore == 2
MaxDay == 68
MaxPatterns == 4

AnalysisTickSteps == {7, 8}

\* four coffees of 10000 a week apart
MicroStore ==
  StoreOf([i \in 1..4 |->
             <<10000, StartDay - (4 - i) * 7, 12, "coffee", "coffee", TRUE>>])

\* three rents of 50000 a month apart
RentStore ==
  StoreOf([i \in 1..3 |->
             <<50000, StartDay - (3 - i) * 30, 12, "rent", "rent", TRUE>>])

AnalysisStores == {<<>>, CoffeeStore, MicroStore, RentStore}

\* the transactions a user adds while the machine runs
AddKinds ==
  {<<10000, "coffee", "coffee">>, <<50000, "rent", "rent">>}

\* two rents of 50000 a month apart, analysed 8 days ago, and a third rent
\* added yesterday: the collections a pass at StartDay - 8 left, plus the
\* new transaction
LaterRentStore ==
  LET pair == StoreOf(<<<<50000, StartDay - 38, 12, "rent", "rent", TRUE>>,
                        <<50000, StartDay - 8, 12, "rent", "rent", TRUE>>>>)
      first == analyze_user_transactions(pair, <<>>, "u1", StartDay - 8, NoFault)
  IN [txs |-> Append(first.txs,
                     [NewTransaction("u1", 50000, StartDay - 1, 12, "rent", "rent", TRUE)
                        EXCEPT !.id = 3]),
      pdocs |-> first.pdocs]

InitAnalysis ==
  /\ now = StartDay
  /\ patterns = [p \in PatternIds |-> "absent"]
  /\ recs = <<>>
  /\ out = [call |-> "none"]
  /\ \/ txs \in AnalysisStores /\ pdocs = <<>>
     \/ txs = LaterRentStore.txs /\ pdocs = LaterRentStore.pdocs

\* a transaction of user u1 dated now is added to the collection
AddTransaction(k) ==
  /\ Len(txs) < MaxStore
  /\ txs' = Append(txs, [NewTransaction("u1", k[1], now, 12, k[2], k[3], TRUE)
                           EXCEPT !.id = Len(txs) + 1])
  /\ out' = [call |-> "none"]
  /\ UNCHANGED <<pdocs, now, patterns, recs>>

\* the clock advances by d days
AnalysisTick(d) ==
  /\ now + d <= MaxDay
  /\ now' = now + d
  /\ out' = [call |-> "none"]
  /\ UNCHANGED <<txs, pdocs, patterns, recs>>

\* TransactionAnalysisService.analyze_user_transactions under fault f
AnalyzeUserTransactions(u, f) ==
  \E after \in {analyze_user_transactions(txs, pdocs, u, now, f)} :
     /\ Len(after.pdocs) <= MaxPatterns
     /\ txs' = after.txs
     /\ pdocs' = after.pdocs
     /\ out' = [call |-> "analyze_user_transactions", user_id |-> u,
                result |-> after.result]
     /\ UNCHANGED <<now, patterns, recs>>

AddTransactionStep == \E k \in AddKinds : AddTransaction(k)
AnalysisTickStep == \E d \in AnalysisTickSteps : AnalysisTick(d)
AnalyzeStep == \E u \in Users, f \in Faults : AnalyzeUserTransactions(u, f)

NextAnalysis ==
  \/ AddTransactionStep
  \/ AnalysisTickStep
  \/ AnalyzeStep

SpecAnalysis == InitAnalysis /\ [][NextAnalysis]_vars

\* every pattern document the analysis persisted is of a known type and
\* the id of a transaction document is its place in the collection
AnalysisTypeOK ==
  /\ \A k \in 1..Len(pdocs) : pdocs[k].type \in SupportedTypes
  /\ \A i \in 1..Len(txs) : txs[i].id = i

\* the days that may pass between two calls of analyze_user_transactions
Delays == {0, 1, 7}

Added(ps, after) == SubSeq(after.pdocs, Len(ps) + 1, Len(after.pdocs))

\* C13: when the at-th add of a pass raises inside a detector, the pass still
\* answers success, the batch is marked analyzed as in the pass without the
\* fault, and the patterns of the other detectors are persisted.
C13_DetectorIsolation ==
  \A u \in Users, f \in Faults :
     LET clean == analyze_user_transactions(txs, pdocs, u, now, NoFault)
         faulty == analyze_user_transactions(txs, pdocs, u, now, f)
         found == Added(pdocs, clean)
     IN (f.kind = "add" /\ f.at <= Len(found))
           => /\ faulty.result.status = "success"
              /\ \A i \in 1..Len(txs) :
                    faulty.txs[i].lastAnalyzedAt = clean.txs[i].lastAnalyzedAt
              /\ \A k \in 1..Len(found) :
                    found[k].type # found[f.at].type
                       => \E j \in 1..Len(faulty.pdocs) : faulty.pdocs[j] = found[k]

\* the analysis flags a detector may set
FlagNames == {"isMicroExpense", "isHighDeviation", "isOptimizableRecurring",
              "isTemporalPattern"}

\* every flag that is true in batch b is true for the same transaction in c
KeepsFlags(b, c) ==
  /\ Len(c) = Len(b)
  /\ \A i \in 1..Len(b), flag \in FlagNames : b[i][flag] => c[i][flag]

\* C23: a pass of analyze_user_transactions, under any fault, leaves true
\* every analysis flag that was true in the store, and so does each step of
\* the pass (the enrichment and each of the four detectors) on the batch it
\* is given, so that no order of the detectors clears a flag.
C23_FlagsMonotonic ==
  \A u \in Users, f \in Faults :
     LET ids == get_transactions_to_analyze(txs, u, now)
         batch == [k \in 1..Len(ids) |-> txs[ids[k]]]
         adds == AddsAllowed(f)
         historical == get_by_user_id_and_date_range(txs, u, now)
     IN /\ KeepsFlags(txs, analyze_user_transactions(txs, pdocs, u, now, f).txs)
        /\ KeepsFlags(batch, _enrich_transactions_metadata(batch))
        /\ KeepsFlags(batch, _detect_micro_expense_patterns(u, batch, adds).batch)
        /\ KeepsFlags(batch, _detect_recurring_patterns(u, batch, adds).batch)
        /\ KeepsFlags(batch, _detect_temporal_patterns(u, batch, historical, adds).batch)
        /\ KeepsFlags(batch, _detect_category_deviations(u, batch, historical, adds).batch)

\* a pass analysed again a transaction that an earlier pass had flagged
\* isOptimizableRecurring and whose group is not recurring any more: the
\* flag is still true
C23_Witness ==
  /\ out.call = "analyze_user_transactions"
  /\ out.result.status = "success"
  /\ \E i \in 1..Len(txs) :
        /\ txs[i].lastAnalyzedAt = now
        /\ txs[i].isOptimizableRecurring
        /\ ~txs[i].isRecurring

\* C30: when a pass of analyze_user_transactions answers status error, it
\* has changed the lastAnalyzedAt of no transaction, the patterns stored
\* before the pass and those the pass added before the failure are in the
\* store, and the next pass, at once or some days later, selects the batch
\* it would have selected without this pass.
C30_ErrorLeavesBatch ==
  \A u \in Users, f \in Faults :
     LET faulty == analyze_user_transactions(txs, pdocs, u, now, f)
         clean == analyze_user_transactions(txs, pdocs, u, now, NoFault)
     IN faulty.result.status = "error"
          => /\ Len(faulty.txs) = Len(txs)
             /\ \A i \in 1..Len(txs) :
                   faulty.txs[i].lastAnalyzedAt = txs[i].lastAnalyzedAt
             /\ f.kind = "add"
             /\ faulty.pdocs = SubSeq(clean.pdocs, 1, Len(pdocs) + f.at - 1)
             /\ get_transactions_to_analyze(txs, u, now) # <<>>
             /\ \A d \in Delays :
                   get_transactions_to_analyze(faulty.txs, u, now + d)
                     = get_transactions_to_analyze(txs, u, now + d)

\* a pass answered error after it had persisted the first of the patterns
\* it finds: that pattern is the only one stored, no transaction of the
\* user is marked analyzed, and the pass made now selects them all again
\* and finds the same patterns
C30_Witness ==
  /\ out.call = "analyze_user_transactions"
  /\ out.result.status = "error"
  /\ Len(pdocs) = 1
  /\ \A i \in 1..Len(txs) : txs[i].lastAnalyzedAt = NoTime
  /\ Len(get_transactions_to_analyze(txs, "u1", now)) = Len(txs)
  /\ LET again == analyze_user_transactions(txs, <<>>, "u1", now, NoFault)
     IN /\ Len(again.pdocs) >= 2
        /\ again.pdocs[1] = pdocs[1]

(***************************************************************************)
(* The recommendation service under faults of its repositories.  Every     *)
(* repository method catches what the store raises and answers its empty   *)
(* value (a query [], get_by_id None, an update False); only               *)
(* BaseRepository.add re-raises, and the builders of the service catch     *)
(* that and answer None.  Kinds of fault: read (every query and get_by_id  *)
(* fails), read_existing (the query for a pending recommendation of a      *)
(* pattern fails), update (every update of a recommendation fails),        *)
(* update_status (the update of the pattern fails), add (the at-th add of  *)
(* the call raises).                                                       *)
(***************************************************************************)
RecFaultKinds == {"read", "read_existing", "update", "update_status"}

RecFaults ==
  {NoFault} \cup {[kind |-> k, at |-> 0] : k \in RecFaultKinds}
            \cup {[kind |-> "add", at |-> n] : n \in 1..MaxAddFault}

\* RecommendationRepository.expire_old_recommendations under fault f
expire_old_recommendations_under(rs, u, t, f) ==
  IF f.kind \in {"read", "update"} THEN rs ELSE expire_old_recommendations(rs, u, t)

\* the loop of generate_recommendations under fault f, adds builders having
\* called add before: the store after it and the recommendations generated
RECURSIVE GenerateLoopUnder(_, _, _, _, _, _)
GenerateLoopUnder(ps, rs, u, t, f, adds) ==
  IF ps = <<>> THEN [recs |-> rs, generated |-> 0]
  ELSE LET pid == Head(ps)
           existing == IF f.kind \in {"read", "read_existing"} THEN {}
                       ELSE existing_recommendations(rs, u, pid)
       IN IF existing # {}
          THEN GenerateLoopUnder(Tail(ps), rs, u, t, f, adds)
          ELSE IF PatternPool[pid].type \notin SupportedTypes
          THEN GenerateLoopUnder(Tail(ps), rs, u, t, f, adds)
          ELSE IF f.kind = "add" /\ f.at = adds + 1
          THEN GenerateLoopUnder(Tail(ps), rs, u, t, f, adds + 1)
          ELSE LET rest == GenerateLoopUnder(Tail(ps),
                              Append(rs, NewRecommendation(pid, t)), u, t, f, adds + 1)
               IN [recs |-> rest.recs, generated |-> rest.generated + 1]

\* RecommendationService.generate_recommendations under fault f: the store
\* after the call and the value it returns
generate_recommendations_under(rs, ps, u, t, f) ==
  LET rs1 == expire_old_recommendations_under(rs, u, t, f)
      pats == IF f.kind = "read" THEN <<>>
              ELSE get_patterns_by_savings_potential(ps, u)
      loop == GenerateLoopUnder(pats, rs1, u, t, f, 0)
  IN IF pats = <<>>
     THEN [recs |-> rs1,
           result |-> [status |-> "no_patterns", patterns_analyzed |-> 0,
                       recommendations_generated |-> 0]]
     ELSE [recs |-> loop.recs,
           result |-> [status |-> "success", patterns_analyzed |-> Len(pats),
                       recommendations_generated |-> loop.generated]]

\* RecommendationService.get_recommendations_for_user under fault f
get_recommendations_for_user_under(rs, u, limit, t, f) ==
  LET rs1 == expire_old_recommendations_under(rs, u, t, f)
  IN [recs |-> rs1,
      value |-> IF f.kind = "read" THEN <<>>
                ELSE get_pending_recommendations(rs1, u, limit, t)]

\* RecommendationService.mark_recommendation_shown under fault f
mark_recommendation_shown_under(rs, id, t, f) ==
  IF f.kind \in {"read", "update"} \/ ~mark_recommendation_shown_result(rs, id)
  THEN [recs |-> rs, value |-> FALSE]
  ELSE [recs |-> mark_recommendation_shown(rs, id, t), value |-> TRUE]

\* RecommendationService.update_recommendation_interaction under fault f
update_recommendation_interaction_under(ps, rs, id, itype, reason, hasDetails, f) ==
  IF \/ f.kind \in {"read", "update"}
     \/ ~update_recommendation_interaction_result(rs, id, itype, hasDetails)
  THEN [recs |-> rs, patterns |-> ps, value |-> FALSE]
  ELSE [recs |-> update_recommendation_interaction(rs, id, itype, hasDetails),
        patterns |-> IF f.kind = "update_status" THEN ps
                     ELSE update_pattern_status(ps, rs, id, itype, reason, hasDetails),
        value |-> TRUE]

(***************************************************************************)
(* SpecFaults: one call of a public entry point of the engine under a      *)
(* fault, from stores that hold transactions to analyse, two active        *)
(* patterns and recommendations that are fresh, shown or past expiry.      *)
(***************************************************************************)
FaultyRecs ==
  {<<>>,
   <<NewRecommendation("p1", StartDay)>>,
   <<NewRecommendation("p1", StartDay - ExpiryDays - 1)>>,
   <<mark_as_shown(NewRecommendation("p2", StartDay - 1), StartDay)>>,
   <<NewRecommendation("p1", StartDay - ExpiryDays - 1),
     NewRecommendation("p2", StartDay)>>}

InitFaults ==
  /\ now = StartDay
  /\ patterns = [p \in PatternIds |-> "active"]
  /\ recs \in FaultyRecs
  /\ out = [call |-> "none"]
  /\ txs \in AnalysisStores
  /\ pdocs = <<>>

\* analyze_user_transactions(u) under fault f
FaultyAnalyze(u, f) ==
  /\ out.call = "none"
  /\ \E after \in {analyze_user_transactions(txs, pdocs, u, now, f)} :
        /\ txs' = after.txs
        /\ pdocs' = after.pdocs
        /\ out' = [call |-> "analyze_user_transactions", fault |-> f.kind,
                   result |-> after.result]
        /\ UNCHANGED <<now, patterns, recs>>

\* generate_recommendations(u) under fault f
FaultyGenerate(u, f) ==
  /\ out.call = "none"
  /\ \E after \in {generate_recommendations_under(recs, patterns, u, now, f)} :
        /\ recs' = after.recs
        /\ out' = [call |-> "generate_recommendations", fault |-> f.kind,
                   result |-> after.result]
        /\ UNCHANGED <<now, patterns, txs, pdocs>>

\* get_recommendations_for_user(u, limit) under fault f
FaultyGet(u, limit, f) ==
  /\ out.call = "none"
  /\ \E after \in {get_recommendations_for_user_under(recs, u, limit, now, f)} :
        /\ recs' = after.recs
        /\ out' = [call |-> "get_recommendations_for_user", fault |-> f.kind,
                   value |-> after.value]
        /\ UNCHANGED <<now, patterns, txs, pdocs>>

\* mark_recommendation_shown(id) under fault f
FaultyMarkShown(id, f) ==
  /\ out.call = "none"
  /\ \E after \in {mark_recommendation_shown_under(recs, id, now, f)} :
        /\ recs' = after.recs
        /\ out' = [call |-> "mark_recommendation_shown", fault |-> f.kind,
                   value |-> after.value]
        /\ UNCHANGED <<now, patterns, txs, pdocs>>

\* update_recommendation_interaction(id, itype, details) under fault f
FaultyInteract(id, itype, reason, hasDetails, f) ==
  /\ out.call = "none"
  /\ \E after \in {update_recommendation_interaction_under(patterns, recs, id, itype,
                       reason, hasDetails, f)} :
        /\ recs' = after.recs
        /\ patterns' = after.patterns
        /\ out' = [call |-> "update_recommendation_interaction", fault |-> f.kind,
                   value |-> after.value]
        /\ UNCHANGED <<now, txs, pdocs>>

FaultyAnalyzeStep == \E u \in Users, f \in Faults : FaultyAnalyze(u, f)
FaultyGenerateStep == \E u \in Users, f \in RecFaults : FaultyGenerate(u, f)
FaultyGetStep == \E u \in Users, limit \in Limits, f \in RecFaults : FaultyGet(u, limit, f)
FaultyMarkShownStep == \E id \in 1..MaxRecs, f \in RecFaults : FaultyMarkShown(id, f)
FaultyInteractStep ==
  \E id \in 1..MaxRecs, x \in InteractionInputs, f \in RecFaults :
    FaultyInteract(id, x[1], x[2], x[3], f)

NextFaults ==
  \/ FaultyAnalyzeStep
  \/ FaultyGenerateStep
  \/ FaultyGetStep
  \/ FaultyMarkShownStep
  \/ FaultyInteractStep

SpecFaults == InitFaults /\ [][NextFaults]_vars

\* without a fault the entry points do what they do in the machine without faults
NoFaultIsPlain ==
  /\ \A u \in Users :
       LET g == generate_recommendations_under(recs, patterns, u, now, NoFault)
       IN /\ g.recs = generate_recommendations(recs, patterns, u, now)
          /\ g.result = generate_recommendations_result(recs, patterns, u, now)
  /\ \A u \in Users, limit \in Limits :
       LET g == get_recommendations_for_user_under(recs, u, limit, now, NoFault)
       IN /\ g.recs = get_recommendations_for_user(recs, u, now)
          /\ g.value = get_recommendations_for_user_result(recs, u, limit, now)
  /\ \A id \in 1..MaxRecs :
       LET m == mark_recommendation_shown_under(recs, id, now, NoFault)
       IN /\ m.recs = mark_recommendation_shown(recs, id, now)
          /\ m.value = mark_recommendation_shown_result(recs, id)
  /\ \A id \in 1..MaxRecs, x \in InteractionInputs :
       LET i == update_recommendation_interaction_under(patterns, recs, id,
                                                        x[1], x[2], x[3], NoFault)
       IN /\ i.recs = update_recommendation_interaction(recs, id, x[1], x[3])
          /\ i.patterns = update_pattern_status(patterns, recs, id, x[1], x[2], x[3])
          /\ i.value = update_recommendation_interaction_result(recs, id, x[1], x[3])

\* the values of the status discriminator of a structured result
ResultStatuses == {"success", "no_data", "no_patterns", "error"}

\* C14: under every fault of the persistence collaborator,
\* analyze_user_transactions and generate_recommendations return a result
\* whose status is success, no_data, no_patterns or error,
\* get_recommendations_for_user returns a list of stored recommendations, and
\* mark_recommendation_shown and update_recommendation_interaction return a
\* boolean; no call ends with an exception.
C14_NoEscape ==
  /\ \A u \in Users, f \in Faults :
       analyze_user_transactions(txs, pdocs, u, now, f).result.status \in ResultStatuses
  /\ \A u \in Users, f \in RecFaults :
       generate_recommendations_under(recs, patterns, u, now, f).result.status
          \in ResultStatuses
  /\ \A u \in Users, limit \in Limits, f \in RecFaults :
       LET value == get_recommendations_for_user_under(recs, u, limit, now, f).value
       IN \A k \in 1..Len(value) : value[k] \in 1..Len(recs)
  /\ \A id \in 1..MaxRecs, f \in RecFaults :
       mark_recommendation_shown_under(recs, id, now, f).value \in BOOLEAN
  /\ \A id \in 1..MaxRecs, x \in InteractionInputs, f \in RecFaults :
       update_recommendation_interaction_under(patterns, recs, id, x[1], x[2], x[3],
                                               f).value \in BOOLEAN
  /\ out.call \in {"analyze_user_transactions", "generate_recommendations"}
       => out.result.status \in ResultStatuses

\* an add raised inside a detector and the call answered the error result
C14_Witness ==
  /\ out.call = "analyze_user_transactions"
  /\ out.fault = "add"
  /\ out.result.status = "error"
  /\ \E i \in 1..Len(txs) : txs[i].lastAnalyzedAt = NoTime

\* C15: when an add or an update fails during analyze_user_transactions or
\* generate_recommendations, the result has status error, and the patterns
\* and recommendations added before the failure are stored as the call
\* without the fault stores them.
C15_FailureIsError ==
  \A u \in Users :
     LET batch == get_transactions_to_analyze(txs, u, now)
         clean == analyze_user_transactions(txs, pdocs, u, now, NoFault)
         plain == generate_recommendations_under(recs, patterns, u, now, NoFault)
         stale == {i \in 1..Len(recs) :
                     /\ recs[i].user_id = u
                     /\ recs[i].expires_at < now
                     /\ recs[i].status # "expired"}
     IN /\ \A f \in Faults :
             LET faulty == analyze_user_transactions(txs, pdocs, u, now, f)
             IN /\ (f.kind = "update" /\ batch # <<>>)
                     => faulty.result.status = "error"
                /\ (f.kind = "add" /\ f.at <= Len(Added(pdocs, clean)))
                     => /\ faulty.result.status = "error"
                        /\ faulty.pdocs = SubSeq(clean.pdocs, 1, Len(pdocs) + f.at - 1)
        /\ \A f \in RecFaults :
             LET faulty == generate_recommendations_under(recs, patterns, u, now, f)
             IN /\ (f.kind = "update" /\ stale # {})
                     => faulty.result.status = "error"
                /\ (f.kind = "add" /\ f.at <= plain.result.recommendations_generated)
                     => /\ faulty.result.status = "error"
                        /\ \A i \in 1..Len(faulty.recs) :
                              \E j \in 1..Len(plain.recs) : plain.recs[j] = faulty.recs[i]

(***************************************************************************)
(* Category deviations.  A collection holds one expense of category travel  *)
(* entered some days ago and analysed by a pass the day before, and one to  *)
(* three expenses entered since, of category travel or food, not analysed   *)
(* yet.  The historical window of a pass is read from the same collection,   *)
(* so it includes the batch.                                                 *)
(***************************************************************************)
DeviationCategories == {"travel", "food"}
DeviationBack == {5, 12, 45}
DeviationPast == {20000, 100000}
DeviationSpan == {0, 10}
DeviationCount == 3
DeviationAmounts == {10000, 40000}

\* the collection after the pass of day StartDay - 1 over the old expense
\* alone, with n expenses of amount and category c entered since, over span
\* days
DeviationStore(back, h, n, span, c, amount) ==
  LET old == StoreOf(<<<<h, StartDay - back, 12, "travel", "rent", TRUE>>>>)
      first == analyze_user_transactions(old, <<>>, "u1", StartDay - 1, NoFault)
  IN first.txs \o
       [i \in 1..n |->
          [NewTransaction("u1", amount,
                          IF i = 1 /\ n > 1 THEN StartDay - span ELSE StartDay,
                          12, c, "coffee", TRUE)
             EXCEPT !.id = i + 1]]

InitDeviation ==
  /\ now = StartDay
  /\ patterns = [p \in PatternIds |-> "absent"]
  /\ recs = <<>>
  /\ out = [call |-> "none"]
  /\ pdocs = <<>>
  /\ \E back \in DeviationBack, h \in DeviationPast, n \in 1..DeviationCount,
        span \in DeviationSpan, c \in DeviationCategories,
        amount \in DeviationAmounts :
        txs = DeviationStore(back, h, n, span, c, amount)

SpecDeviation == InitDeviation /\ [][NextDetect]_vars

\* what the pass without fault does for category c of user u in this state,
\* against the rule: with T the total of the expenses of c in the batch over
\* d days (at least 1), S the total of the expenses of c in the window over
\* r days and H = S / max(r / 30, 1), a category_deviation pattern of c is
\* persisted exactly when r >= 7, H > 0, the batch holds at least least
\* expenses of c and T * 30 / d > 1.5 * H; its estimatedMonthly is
\* T * 30 / d - H and every expense of c in the batch is flagged
DeviationRule(u, c, least) ==
  LET ids == get_transactions_to_analyze(txs, u, now)
      cur == SelectSeq([k \in 1..Len(ids) |-> txs[ids[k]]],
                       LAMBDA t : t.is_expense /\ t.category = c)
      past == SelectSeq(get_by_user_id_and_date_range(txs, u, now),
                        LAMBDA t : t.is_expense /\ t.category = c)
      T == SumSeq(Amounts(cur))
      S == SumSeq(Amounts(past))
      d == IF DateRange(cur) < 1 THEN 1 ELSE DateRange(cur)
      r == IF past = <<>> THEN 0 ELSE DateRange(past)
      \* H = Hn / Hd
      Hn == IF r <= 30 THEN S ELSE S * 30
      Hd == IF r <= 30 THEN 1 ELSE r
      after == analyze_user_transactions(txs, pdocs, u, now, NoFault)
      emitted == {k \in 1..Len(Added(pdocs, after)) :
                    /\ Added(pdocs, after)[k].type = "category_deviation"
                    /\ Added(pdocs, after)[k].category = c}
  IN cur # <<>> =>
       /\ Cardinality(emitted) <= 1
       /\ (r >= 7 /\ S > 0)
             => (emitted # {} <=> /\ Len(cur) >= least
                                  /\ 2 * T * 30 * Hd > 3 * Hn * d)
       /\ r < 7 => emitted = {}
       /\ \A k \in emitted :
             LET p == Added(pdocs, after)[k]
             IN /\ p.estimatedMonthly.num * d * Hd
                     = p.estimatedMonthly.den * (T * 30 * Hd - Hn * d)
                /\ \A i \in 1..Len(cur) : after.txs[cur[i].id].isHighDeviation

GeneratedId == "generated"

\* Category.__init__ with no argument, at time t
NewCategory(t) ==
  [id |-> GeneratedId, created_at |-> t, updated_at |-> t, user_id |-> "None",
   name |-> "", type |-> "expense", icon |-> "default", color |-> "#808080"]

\* Category(**data) for the arguments of the constructor: a falsy id is
\* replaced by a generated one and a key that is no argument is left out
from_dict_constructed(d, t) ==
  [k \in DOMAIN NewCategory(t) |->
     IF k \in DOMAIN d /\ ~(k = "id" /\ d[k] = "") THEN d[k]
     ELSE NewCategory(t)[k]]

\* Category.from_dict: cls() and then setattr for every item of data
from_dict(d, t) ==
  [k \in DOMAIN NewCategory(t) \cup DOMAIN d |->
     IF k \in DOMAIN d THEN d[k] ELSE NewCategory(t)[k]]

\* the values a key of the dictionary may hold
CategoryValues ==
  [id |-> <<"cat123", "">>, user_id |-> <<"user456", "None">>,
   name |-> <<"Dict Category">>, type |-> <<"income", "expense">>,
   icon |-> <<"dict_icon">>, color |-> <<"#00FF00">>,
   created_at |-> <<5>>, note |-> <<"imported">>]

CategoryKeys == DOMAIN CategoryValues

\* the dictionary that holds value number pick[k] of every key k with
\* pick[k] > 0
CategoryDict(pick) ==
  [k \in {x \in CategoryKeys : pick[x] > 0} |-> CategoryValues[k][pick[k]]]

InitCategory ==
  /\ now = StartDay
  /\ patterns = [p \in PatternIds |-> "absent"]
  /\ recs = <<>>
  /\ out = [call |-> "none"]
  /\ txs = <<>>
  /\ \E pick \in [CategoryKeys -> 0..2] :
        /\ \A k \in CategoryKeys : pick[k] <= Len(CategoryValues[k])
        /\ pdocs = <<CategoryDict(pick)>>

\* a call of Category.from_dict on the dictionary; out keeps the category
FromDict ==
  /\ out.call = "none"
  /\ out' = [call |-> "from_dict", category |-> from_dict(pdocs[1], now)]
  /\ UNCHANGED <<txs, pdocs, now, patterns, recs>>

FromDictStep == FromDict

NextCategory == FromDictStep

SpecCategory == InitCategory /\ [][NextCategory]_vars

\* C25: the category returned by Category.from_dict(d) has, for every key k
\* of d, the attribute k equal to d[k] (the id of d replaces the generated
\* one), and every attribute of the constructor absent from d has its
\* default value.
C25_FromDict ==
  out.call = "from_dict" =>
    LET d == pdocs[1]
        category == out.category
    IN /\ \A k \in DOMAIN d : k \in DOMAIN category /\ category[k] = d[k]
       /\ \A k \in DOMAIN NewCategory(now) \ DOMAIN d :
             /\ k \in DOMAIN category
             /\ category[k] = NewCategory(now)[k]

\* from_dict was given an empty id, a key that is no attribute of the
\* constructor, and no icon: the id is the empty one, the key is an
\* attribute and the icon is the default
C25_Witness ==
  /\ out.call = "from_dict"
  /\ DOMAIN pdocs[1] = {"id", "name", "note"}
  /\ pdocs[1].id = ""
  /\ out.category.id = ""
  /\ out.category.note = "imported"
  /\ out.category.icon = "default"
  /\ out.category.created_at = now

(***************************************************************************)
(* Repeated analysis (specification SpecRepeat): the collections of        *)
(* SpecAnalysis with a persistence collaborator that never fails, so that  *)
(* every pass is a successful one.                                         *)
(***************************************************************************)
AnalyzePlainStep == \E u \in Users : AnalyzeUserTransactions(u, NoFault)

NextRepeat ==
  \/ AddTransactionStep
  \/ AnalysisTickStep
  \/ AnalyzePlainStep

SpecRepeat == InitAnalysis /\ [][NextRepeat]_vars

\* patterns p and q of one type are of the same group: the same category
\* for micro_expense and category_deviation, the same recurrenceGroupId of
\* their transactions for recurring, the same day of the week or period of
\* the day for temporal
SameGroup(p, q) ==
  /\ p.user_id = q.user_id
  /\ p.type = q.type
  /\ CASE p.type \in {"micro_expense", "category_deviation"} ->
             p.category = q.category
        [] p.type = "recurring" ->
             txs[p.related[1]].recurrenceGroupId = txs[q.related[1]].recurrenceGroupId
        [] OTHER ->
             /\ p.detail = q.detail
             /\ IF p.detail = "day_of_week"
                THEN dayOfWeek(txs[p.related[1]]) = dayOfWeek(txs[q.related[1]])
                ELSE timeOfDay(txs[p.related[1]]) = timeOfDay(txs[q.related[1]])

\* C26: after any sequence of successful passes, transactions being added
\* in between, no two active patterns of a user have the same type and the
\* same group.
C26_NoDuplicatePatterns ==
  \A j, k \in 1..Len(pdocs) :
     (j # k /\ pdocs[j].status = "active" /\ pdocs[k].status = "active")
        => ~SameGroup(pdocs[j], pdocs[k])

(***************************************************************************)
(* Overlapping invocations of generate_recommendations (specification       *)
(* SpecOverlap).  The server handles every request in a thread of its own   *)
(* and the service takes no lock and opens no transaction, so the calls two *)
(* invocations make to the stores interleave in any order.  An invocation   *)
(* is at one of: expire (before expire_old_recommendations), patterns        *)
(* (before get_patterns_by_savings_potential), query (before the query for  *)
(* a pending recommendation of the first pattern of todo), add (before the  *)
(* add of the recommendation built for that pattern), done.                 *)
(***************************************************************************)
Invocations == {1, 2}

NewInvocation(u) ==
  [user_id |-> u, pc |-> "expire", todo |-> <<>>, recommendations_generated |-> 0,
   status |-> "running"]

InitOverlap ==
  /\ now = 0
  /\ patterns \in [PatternIds -> {"absent", "active"}]
  /\ recs = <<>>
  /\ txs = <<>>
  /\ pdocs = <<>>
  /\ \E us \in [Invocations -> Users] :
        out = [call |-> "generate_recommendations",
               running |-> [i \in Invocations |-> NewInvocation(us[i])]]

\* the invocation after the pattern at the head of todo is dealt with
NextPattern(inv) ==
  IF Tail(inv.todo) = <<>>
  THEN [inv EXCEPT !.todo = <<>>, !.pc = "done", !.status = "success"]
  ELSE [inv EXCEPT !.todo = Tail(inv.todo), !.pc = "query"]

\* invocation i calls expire_old_recommendations
OverlapExpire(i) ==
  LET inv == out.running[i]
  IN /\ inv.pc = "expire"
     /\ recs' = expire_old_recommendations(recs, inv.user_id, now)
     /\ out' = [out EXCEPT !.running[i].pc = "patterns"]
     /\ UNCHANGED <<now, patterns, txs, pdocs>>

\* invocation i reads the active patterns of its user
OverlapPatterns(i) ==
  LET inv == out.running[i]
      pats == get_patterns_by_savings_potential(patterns, inv.user_id)
  IN /\ inv.pc = "patterns"
     /\ out' = [out EXCEPT !.running[i] =
                   IF pats = <<>>
                   THEN [inv EXCEPT !.pc = "done", !.status = "no_patterns"]
                   ELSE [inv EXCEPT !.pc = "query", !.todo = pats]]
     /\ UNCHANGED <<now, patterns, recs, txs, pdocs>>

\* invocation i queries the pending recommendations of the pattern
OverlapQuery(i) ==
  LET inv == out.running[i]
  IN /\ inv.pc = "query"
     /\ out' = [out EXCEPT !.running[i] =
                   IF existing_recommendations(recs, inv.user_id, Head(inv.todo)) # {}
                   THEN NextPattern(inv)
                   ELSE [inv EXCEPT !.pc = "add"]]
     /\ UNCHANGED <<now, patterns, recs, txs, pdocs>>

\* invocation i builds the recommendation of the pattern and adds it
OverlapAdd(i) ==
  LET inv == out.running[i]
  IN /\ inv.pc = "add"
     /\ recs' = _create_recommendation_from_pattern(recs, Head(inv.todo), now)
     /\ out' = [out EXCEPT !.running[i] =
                   NextPattern([inv EXCEPT !.recommendations_generated = @ + 1])]
     /\ UNCHANGED <<now, patterns, txs, pdocs>>

OverlapExpireStep == \E i \in Invocations : OverlapExpire(i)
OverlapPatternsStep == \E i \in Invocations : OverlapPatterns(i)
OverlapQueryStep == \E i \in Invocations : OverlapQuery(i)
OverlapAddStep == \E i \in Invocations : OverlapAdd(i)

NextOverlap ==
  \/ OverlapExpireStep
  \/ OverlapPatternsStep
  \/ OverlapQueryStep
  \/ OverlapAddStep

SpecOverlap == InitOverlap /\ [][NextOverlap]_vars

\* an invocation that runs from its first step to its last while the other
\* has not started leaves the store generate_recommendations leaves
OverlapIsPlainWhenAlone ==
  \A i, j \in Invocations :
     (out.running[i].pc = "done" /\ out.running[j].pc = "expire" /\ i # j)
        => recs = generate_recommendations(<<>>, patterns, out.running[i].user_id, now)

\* C27: while two invocations of generate_recommendations overlap, their
\* queries and adds interleaved in any order, and after both are done, no
\* (user_id, pattern_id) pair has more than one pending recommendation.
C27_OnePendingUnderOverlap ==
  \A u \in Users, p \in PatternIds :
     Cardinality({i \in DOMAIN recs : /\ recs[i].user_id = u
                                      /\ recs[i].pattern_id = p
                                      /\ recs[i].status = "pending"}) <= 1

====
